---- MODULE Spec2Model ----
(***************************************************************************)
(* Smart-Support-Buddy: the FAISS-backed collection store                  *)
(* (backend/app/services/faiss_client.py) and the hybrid retrieval         *)
(* pipeline (backend/app/utils/rag_pipeline.py, retrievers.py).            *)
(*                                                                         *)
(* Conventions of the translation                                          *)
(*  - A Python dict is an insertion-ordered sequence of <<key, value>>     *)
(*    pairs (list(d.keys()) and pickling both keep that order).            *)
(*  - An Optional value is <<>> (None) or <<v>>.                           *)
(*  - A document is a sequence of characters, so that `term in document`   *)
(*    is contiguous-subsequence containment.                               *)
(*  - A metadata dict / where clause is a set of <<key, value>> pairs.     *)
(*  - An embedding is a sequence of integers; the index keeps, in          *)
(*    insertion order, records [id, vec] as IndexIDMap(IndexFlatL2) does.  *)
(*  - External ids are non-empty strings.                                  *)
(***************************************************************************)
EXTENDS Integers, Sequences, FiniteSets, TLC

\* ----------------------------------------------------------------- bounds
\* configured embedding dimension d of the collection (scaled down)
Dim == 2
\* cap on next_internal_id: at most this many records are ever added
MaxInternalId == 3
\* longest ids / embeddings list handed to one add or delete call
MaxBatch == 2
\* largest n_results / limit / offset a caller passes
MaxK == 2

\* ------------------------------------------------------- input domains
Ids == {"a", "b"}

IdList == <<"a", "b">>

Zero(n) == [i \in 1..n |-> 0]

Unit(n, j) == [i \in 1..n |-> IF i = j THEN 1 ELSE 0]

\* well-dimensioned embeddings callers use: the unit vectors and the origin
Vecs == {Unit(Dim, j) : j \in 1..Dim} \cup {Zero(Dim)}

\* an embedding whose length is not the collection's dimension
BadVecs == {Zero(Dim + 1)}

Docs == {<<"x">>, <<"x", "y">>}

Terms == {<<"x">>, <<"y">>}

Metas == {{<<"k", 1>>}, {<<"k", 1>>, <<"t", 1>>}, {}}

Wheres == {{}, {<<"k", 1>>}, {<<"t", 1>>}, {<<"k", 2>>}}

\* ------------------------------------------------------ Python helpers
None == <<>>

Some(v) == <<v>>

DictHas(d, k) == \E i \in DOMAIN d : d[i][1] = k

\* d.get(k): None when the key is absent
DictGet(d, k) ==
    IF DictHas(d, k) THEN Some(d[CHOOSE i \in DOMAIN d : d[i][1] = k][2]) ELSE None

\* d.get(k, default)
DictGetOr(d, k, default) == IF DictHas(d, k) THEN DictGet(d, k)[1] ELSE default

\* d[k] = v: an existing key keeps its position, a new key goes last
DictSet(d, k, v) ==
    IF DictHas(d, k)
    THEN [i \in DOMAIN d |-> IF d[i][1] = k THEN <<k, v>> ELSE d[i]]
    ELSE Append(d, <<k, v>>)

\* d.pop(k, None), the dict part
DictPop(d, k) == SelectSeq(d, LAMBDA p : p[1] # k)

DictKeys(d) == [i \in DOMAIN d |-> d[i][1]]

Range(s) == {s[i] : i \in DOMAIN s}

Min(a, b) == IF a <= b THEN a ELSE b

\* the outcome of a call: the value returned, or the exception raised
Ok(v) == [error |-> "", value |-> v]

Raise(e) == [error |-> e, value |-> None]

\* sequences over S of length lo..hi
SeqsOf(S, lo, hi) == UNION {[1..n -> S] : n \in lo..hi}

\* ------------------------------------------------- FaissCollection state
\* faiss.IndexIDMap(faiss.IndexFlatL2(dimension)), empty
NewIndex(dimension) == [d |-> dimension, is_idmap |-> TRUE, vecs |-> <<>>]

\* index.ntotal
ntotal(index) == Len(index.vecs)

\* _reset_stores: the four maps and the counter as __init__ leaves them
ResetStores ==
    [metadata_store |-> <<>>, doc_store |-> <<>>, faiss_id_to_doc_id |-> <<>>,
     doc_id_to_faiss_id |-> <<>>, next_internal_id |-> 0]

Collection(index, stores, dimension) ==
    [index |-> index, dimension |-> dimension,
     metadata_store |-> stores.metadata_store, doc_store |-> stores.doc_store,
     faiss_id_to_doc_id |-> stores.faiss_id_to_doc_id,
     doc_id_to_faiss_id |-> stores.doc_id_to_faiss_id,
     next_internal_id |-> stores.next_internal_id]

\* the two files of a collection; a file is absent (None) or holds content
NoFiles == [index_file |-> None, metadata_file |-> None]

\* ------------------------------------------------------------- _load
\* lines 29-44: the index read from index_path, None when the file is
\* absent, unreadable, not an IndexIDMap or of another dimension
LoadIndex(disk, dimension) ==
    IF disk.index_file = None THEN None
    ELSE LET f == disk.index_file[1]
         IN  IF ~f.readable THEN None
             ELSE IF ~f.index.is_idmap THEN None
             ELSE IF f.index.d # dimension THEN None
             ELSE Some(f.index)

\* line 53: {v: k for k, v in faiss_id_to_doc_id.items()}
RECURSIVE ReverseMap(_, _, _)
ReverseMap(faiss_map, i, acc) ==
    IF i > Len(faiss_map) THEN acc
    ELSE ReverseMap(faiss_map, i + 1, DictSet(acc, faiss_map[i][2], faiss_map[i][1]))

\* the counter recomputed from the number of live records
LoadNextId_FromLive(data) == Len(data.faiss_map)

\* line 54: next_internal_id = saved_data.get('next_id', 0)
LoadNextId(data) == data.next_id

\* lines 50-54: the stores rebuilt from the unpickled blob
StoresFrom(data) ==
    [metadata_store |-> data.metadata, doc_store |-> data.documents,
     faiss_id_to_doc_id |-> data.faiss_map,
     doc_id_to_faiss_id |-> ReverseMap(data.faiss_map, 1, <<>>),
     next_internal_id |-> LoadNextId(data)]

\* the load in which a metadata file that cannot be read leaves the loaded
\* index in place
Load_KeepsIndex(disk, dimension) ==
    LET idx == LoadIndex(disk, dimension)
        mf == disk.metadata_file
        stores == IF mf # None /\ mf[1].readable /\ idx # None
                  THEN StoresFrom(mf[1].data) ELSE ResetStores
    IN  IF idx = None
        THEN Collection(NewIndex(dimension), ResetStores, dimension)
        ELSE Collection(idx[1], stores, dimension)

\* FaissCollection.__init__ + _load: the instance built from the files
Load(disk, dimension) ==
    LET idx == LoadIndex(disk, dimension)
        loaded_index == idx # None
        mf == disk.metadata_file
        meta_read == mf # None /\ mf[1].readable
        meta_failed == mf # None /\ ~mf[1].readable
        stores == IF meta_read /\ loaded_index THEN StoresFrom(mf[1].data)
                  ELSE ResetStores
        index == IF meta_failed /\ loaded_index THEN None ELSE idx
    IN  IF index = None
        THEN Collection(NewIndex(dimension), ResetStores, dimension)
        ELSE Collection(index[1], stores, dimension)

\* ------------------------------------------------------------- _save
\* the blob written without the document map
Save_NoDocuments(c) ==
    [index_file |-> Some([readable |-> TRUE, index |-> c.index]),
     metadata_file |->
        Some([readable |-> TRUE,
              data |-> [metadata |-> c.metadata_store, documents |-> <<>>,
                        faiss_map |-> c.faiss_id_to_doc_id,
                        next_id |-> c.next_internal_id]])]

\* faiss.write_index then pickle.dump of the four-field blob
Save(c) ==
    [index_file |-> Some([readable |-> TRUE, index |-> c.index]),
     metadata_file |->
        Some([readable |-> TRUE,
              data |-> [metadata |-> c.metadata_store, documents |-> c.doc_store,
                        faiss_map |-> c.faiss_id_to_doc_id,
                        next_id |-> c.next_internal_id]])]

\* --------------------------------------------------------------- add
\* lines 127-139: one new id is recorded in the maps and the counter advances
AddOne(c, doc_id, metadatas, documents, i) ==
    LET internal_id == c.next_internal_id
    IN  [c EXCEPT
           !.doc_id_to_faiss_id = DictSet(@, doc_id, internal_id),
           !.faiss_id_to_doc_id = DictSet(@, internal_id, doc_id),
           !.metadata_store = IF metadatas # <<>> THEN DictSet(@, doc_id, metadatas[i]) ELSE @,
           !.doc_store = IF documents # <<>> THEN DictSet(@, doc_id, documents[i]) ELSE @,
           !.next_internal_id = @ + 1]

\* no id is ever skipped: add as an upsert
AlreadyPresent_Never(c, doc_id) == FALSE

\* line 122: the id is already in the collection and is skipped
AlreadyPresent(c, doc_id) == DictHas(c.doc_id_to_faiss_id, doc_id)

\* lines 121-139: the loop over ids; st = [c, faiss_ids_to_add, embeddings_to_add]
RECURSIVE AddLoop(_, _, _, _, _, _)
AddLoop(st, ids, embeddings, metadatas, documents, i) ==
    IF i > Len(ids) THEN st
    ELSE IF AlreadyPresent(st.c, ids[i])
         THEN AddLoop(st, ids, embeddings, metadatas, documents, i + 1)
         ELSE AddLoop([c |-> AddOne(st.c, ids[i], metadatas, documents, i),
                       faiss_ids_to_add |-> Append(st.faiss_ids_to_add, st.c.next_internal_id),
                       embeddings_to_add |-> Append(st.embeddings_to_add, embeddings[i])],
                      ids, embeddings, metadatas, documents, i + 1)

\* only the first of the vectors reaches the index
AddWithIds_FirstOnly(index, embs, faiss_ids) ==
    [index EXCEPT !.vecs = @ \o <<[id |-> faiss_ids[1], vec |-> embs[1]]>>]

\* index.add_with_ids: the vectors are appended with their ids
AddWithIds(index, embs, faiss_ids) ==
    [index EXCEPT !.vecs = @ \o [j \in DOMAIN embs |-> [id |-> faiss_ids[j], vec |-> embs[j]]]]

\* only the first embedding's length is looked at
DimensionOk_FirstOnly(embeddings, dimension) ==
    embeddings = <<>> \/ Len(embeddings[1]) = dimension

\* lines 113-115: np.array(embeddings) is a d-column matrix
\* (a ragged list or another width raises)
DimensionOk(embeddings, dimension) ==
    \A j \in DOMAIN embeddings : Len(embeddings[j]) = dimension

\* lines 102-115: "return" (silent early return), "ValueError" or "pass"
AddValidation(c, ids, embeddings, metadatas, documents) ==
    IF ids = <<>> \/ embeddings = <<>> THEN "return"
    ELSE IF Len(ids) # Len(embeddings) THEN "ValueError"
    ELSE IF metadatas # <<>> /\ Len(ids) # Len(metadatas) THEN "ValueError"
    ELSE IF documents # <<>> /\ Len(ids) # Len(documents) THEN "ValueError"
    ELSE IF ~DimensionOk(embeddings, c.dimension) THEN "ValueError"
    ELSE "pass"

\* FaissCollection.add: the instance, the files and the outcome after the call
\* (metadatas / documents None and [] behave alike: both are falsy)
AddResult(c, disk, ids, embeddings, metadatas, documents) ==
    LET v == AddValidation(c, ids, embeddings, metadatas, documents)
    IN  IF v = "return" THEN [c |-> c, disk |-> disk, ret |-> Ok(None)]
        ELSE IF v = "ValueError" THEN [c |-> c, disk |-> disk, ret |-> Raise("ValueError")]
        ELSE LET st == AddLoop([c |-> c, faiss_ids_to_add |-> <<>>, embeddings_to_add |-> <<>>],
                               ids, embeddings, metadatas, documents, 1)
             IN  IF st.embeddings_to_add = <<>>
                 THEN [c |-> st.c, disk |-> disk, ret |-> Ok(None)]
                 ELSE LET c2 == [st.c EXCEPT !.index =
                                    AddWithIds(@, st.embeddings_to_add, st.faiss_ids_to_add)]
                      IN  [c |-> c2, disk |-> Save(c2), ret |-> Ok(None)]

\* the provisional entries stay in the maps
Rollback_Nothing(c, added_doc_ids, i) == c

\* lines 151-156: the entries of the ids this call added are popped again
RECURSIVE Rollback(_, _, _)
Rollback(c, added_doc_ids, i) ==
    IF i > Len(added_doc_ids) THEN c
    ELSE LET doc_id == added_doc_ids[i]
             internal_id == DictGet(c.doc_id_to_faiss_id, doc_id)
         IN  Rollback([c EXCEPT
                         !.doc_id_to_faiss_id = DictPop(@, doc_id),
                         !.faiss_id_to_doc_id =
                             IF internal_id # None THEN DictPop(@, internal_id[1]) ELSE @,
                         !.metadata_store = DictPop(@, doc_id),
                         !.doc_store = DictPop(@, doc_id)],
                      added_doc_ids, i + 1)

\* FaissCollection.add when index.add_with_ids raises (lines 148-158): the
\* index and the files are as before, the maps are rolled back, the counter
\* is not, and the exception is raised again
AddResultInsertRaises(c, disk, ids, embeddings, metadatas, documents) ==
    LET st == AddLoop([c |-> c, faiss_ids_to_add |-> <<>>, embeddings_to_add |-> <<>>],
                      ids, embeddings, metadatas, documents, 1)
        added_doc_ids == [j \in DOMAIN st.faiss_ids_to_add |->
                             DictGet(st.c.faiss_id_to_doc_id, st.faiss_ids_to_add[j])[1]]
    IN  [c |-> Rollback(st.c, added_doc_ids, 1), disk |-> disk, ret |-> Raise("IndexError")]

\* the internal ids one add call hands out (faiss_ids_to_add, lines 127-128)
AddAssigned(c, ids, embeddings, metadatas, documents) ==
    IF AddValidation(c, ids, embeddings, metadatas, documents) # "pass" THEN <<>>
    ELSE AddLoop([c |-> c, faiss_ids_to_add |-> <<>>, embeddings_to_add |-> <<>>],
                 ids, embeddings, metadatas, documents, 1).faiss_ids_to_add

\* ------------------------------------------------------------ delete
\* lines 311-320: ids found are popped from the four maps, the others skipped;
\* st = [c, faiss_ids_to_remove, deleted_doc_ids]
RECURSIVE DeleteLoop(_, _, _)
DeleteLoop(st, ids, i) ==
    IF i > Len(ids) THEN st
    ELSE LET doc_id == ids[i]
             internal_id == DictGet(st.c.doc_id_to_faiss_id, doc_id)
         IN  IF internal_id # None
             THEN DeleteLoop(
                    [c |-> [st.c EXCEPT
                              !.doc_id_to_faiss_id = DictPop(@, doc_id),
                              !.faiss_id_to_doc_id = DictPop(@, internal_id[1]),
                              !.metadata_store = DictPop(@, doc_id),
                              !.doc_store = DictPop(@, doc_id)],
                     faiss_ids_to_remove |-> Append(st.faiss_ids_to_remove, internal_id[1]),
                     deleted_doc_ids |-> Append(st.deleted_doc_ids, doc_id)],
                    ids, i + 1)
             ELSE DeleteLoop(st, ids, i + 1)

\* the vectors stay in the index
RemoveIds_Nothing(index, faiss_ids) == index

\* index.remove_ids: every vector stored under one of the ids goes
RemoveIds(index, faiss_ids) ==
    [index EXCEPT !.vecs = SelectSeq(@, LAMBDA r : r.id \notin Range(faiss_ids))]

\* FaissCollection.delete (where / where_document are only logged as ignored)
DeleteResult(c, disk, ids) ==
    IF ids = <<>> THEN [c |-> c, disk |-> disk, ret |-> Ok(<<>>)]
    ELSE LET st == DeleteLoop([c |-> c, faiss_ids_to_remove |-> <<>>, deleted_doc_ids |-> <<>>],
                              ids, 1)
         IN  IF st.faiss_ids_to_remove # <<>>
             THEN LET c2 == [st.c EXCEPT !.index = RemoveIds(@, st.faiss_ids_to_remove)]
                  IN  [c |-> c2, disk |-> Save(c2), ret |-> Ok(st.deleted_doc_ids)]
             ELSE [c |-> st.c, disk |-> disk, ret |-> Ok(st.deleted_doc_ids)]

\* collection_service.clear_all_issues / clear_collection, lines 6-24: delete
\* is called with a where clause and no ids, and True is returned unless it
\* raised
clear_collection(c, d) ==
    LET r == DeleteResult(c, d, <<>>)
    IN  [c |-> r.c, disk |-> r.disk,
         ret |-> IF r.ret.error # "" THEN r.ret ELSE Ok(TRUE)]

\* FaissCollection.count
count(c) == ntotal(c.index)

\* ------------------------------------------------------------- query
\* squared Euclidean distance, the metric of IndexFlatL2
RECURSIVE SqDist(_, _, _)
SqDist(u, v, i) ==
    IF i > Len(u) THEN 0
    ELSE (u[i] - v[i]) * (u[i] - v[i]) + SqDist(u, v, i + 1)

\* floor of the square root of n, by bisection on lo..hi
RECURSIVE ISqrt(_, _, _)
ISqrt(n, lo, hi) ==
    IF lo >= hi THEN lo
    ELSE LET mid == (lo + hi + 1) \div 2
         IN  IF mid * mid <= n THEN ISqrt(n, mid, hi) ELSE ISqrt(n, lo, mid - 1)

\* line 212: float(np.sqrt(d2)), the L2 distance reported, in thousandths
L2Distance(d2) == ISqrt(d2 * 1000000, 0, 1000 * (d2 + 1))

\* index.search(q, k): the k nearest rows of the index, nearest first, as
\* [id, d2]; rows at equal distance come in an order the library chooses
Search(index, q, k) ==
    LET n == ntotal(index)
        d(p) == SqDist(index.vecs[p].vec, q, 1)
        picks == {s \in [1..k -> 1..n] :
                    /\ \A i, j \in 1..k : i < j => s[i] # s[j] /\ d(s[i]) <= d(s[j])
                    /\ \A p \in 1..n : (\A i \in 1..k : s[i] # p) => d(p) >= d(s[k])}
    IN  {[i \in 1..k |-> [id |-> index.vecs[s[i]].id, d2 |-> d(s[i])]] : s \in picks}

\* the dict returned for an empty index, an empty query list or k <= 0
EmptyQueryResult ==
    [ids |-> <<>>, distances |-> Some(<<>>), metadatas |-> Some(<<>>),
     documents |-> Some(<<>>), embeddings |-> Some(<<>>)]

\* lines 202-216: hits whose internal id has an external id, in hit order
Resolved(c, hits) ==
    SelectSeq(hits, LAMBDA h : h.id # -1 /\ DictHas(c.faiss_id_to_doc_id, h.id))

\* lines 197-233: the result dict built from the hits; a key not in `include`
\* is absent (None)
QueryDict(c, hits, include) ==
    LET kept == Resolved(c, hits)
        doc_id(j) == DictGet(c.faiss_id_to_doc_id, kept[j].id)[1]
    IN  [ids |-> <<[j \in DOMAIN kept |-> doc_id(j)]>>,
         distances |-> IF "distances" \in include
                       THEN Some(<<[j \in DOMAIN kept |-> L2Distance(kept[j].d2)]>>)
                       ELSE None,
         metadatas |-> IF "metadatas" \in include
                       THEN Some(<<[j \in DOMAIN kept |->
                                      DictGetOr(c.metadata_store, doc_id(j), {})]>>)
                       ELSE None,
         documents |-> IF "documents" \in include
                       THEN Some(<<[j \in DOMAIN kept |->
                                      DictGetOr(c.doc_store, doc_id(j), <<>>)]>>)
                       ELSE None,
         embeddings |-> None]

\* one result too few
QueryK_OffByOne(c, n_results) == Min(n_results, ntotal(c.index)) - 1

\* n_results is not looked at
QueryK_Unbounded(c, n_results) == ntotal(c.index)

\* line 186: k = min(n_results, self.index.ntotal)
QueryK(c, n_results) == Min(n_results, ntotal(c.index))

\* the empty index is searched like any other
IndexEmpty_Never(c) == FALSE

\* line 162: self.index.ntotal == 0
IndexEmpty(c) == ntotal(c.index) = 0

\* FaissCollection.query: the set of outcomes the call can have (one per
\* order of equidistant rows); where / where_document are ignored by the code
QueryResults(c, query_embeddings, n_results, include, where, where_document) ==
    IF IndexEmpty(c) THEN {Ok(EmptyQueryResult)}
    ELSE IF query_embeddings = <<>> THEN {Ok(EmptyQueryResult)}
    ELSE IF ~DimensionOk(query_embeddings, c.dimension) THEN {Raise("ValueError")}
    ELSE LET q == query_embeddings[1]
             k == QueryK(c, n_results)
         IN  IF k <= 0 THEN {Ok(EmptyQueryResult)}
             ELSE {Ok(QueryDict(c, hits, include)) : hits \in Search(c.index, q, k)}

\* results['ids'][0]: the ids of a query result ([] when the dict holds none)
ResultIds(v) == IF v.ids = <<>> THEN <<>> ELSE v.ids[1]

\* results['distances'][0]
ResultDistances(v) ==
    IF v.distances = None THEN <<>>
    ELSE IF v.distances[1] = <<>> THEN <<>> ELSE v.distances[1][1]

\* --------------------------------------------------------------- get
\* _matches_where: every key of the clause is in the metadata with that value
MatchesWhere(metadata, where_clause) ==
    IF metadata = None \/ metadata[1] = {} THEN FALSE
    ELSE \A kv \in where_clause :
            /\ \E m \in metadata[1] : m[1] = kv[1]
            /\ \A m \in metadata[1] : m[1] = kv[1] => m[2] = kv[2]

\* search_term in document
Contains(document, search_term) ==
    \E i \in 0..(Len(document) - Len(search_term)) :
        SubSeq(document, i + 1, i + Len(search_term)) = search_term

\* _matches_where_document: only {'$contains': term} is supported
MatchesWhereDocument(document, where_document_clause) ==
    IF document = None \/ document[1] = <<>> THEN FALSE
    ELSE IF \E p \in where_document_clause : p[1] = "$contains"
         THEN \A p \in where_document_clause :
                 p[1] = "$contains" => Contains(document[1], p[2])
         ELSE FALSE

\* lines 260-283: the ids that exist and pass both filters, in iteration order
FilteredIds(c, ids, where, where_document) ==
    LET potential_ids == IF ids # <<>> THEN ids ELSE DictKeys(c.doc_id_to_faiss_id)
        keep(doc_id) ==
            /\ DictHas(c.doc_id_to_faiss_id, doc_id)
            /\ (where # {} => MatchesWhere(DictGet(c.metadata_store, doc_id), where))
            /\ (where_document # {} =>
                  MatchesWhereDocument(DictGet(c.doc_store, doc_id), where_document))
    IN  SelectSeq(potential_ids, keep)

\* filtered_items[start:end] for 0 <= start
Slice(s, start, end) == SubSeq(s, start + 1, Min(end, Len(s)))

\* lines 286-288: limit and offset applied to the filtered list
Paginate(filtered, limit, offset) ==
    LET start == IF offset # 0 THEN offset ELSE 0
        end == IF limit # None THEN start + limit[1] ELSE Len(filtered)
    IN  Slice(filtered, start, end)

\* the page is cut from the ids first and the filters run on the page
GetResult_PageFirst(c, ids, where, limit, offset, where_document, include) ==
    LET potential_ids == IF ids # <<>> THEN ids ELSE DictKeys(c.doc_id_to_faiss_id)
        cut == Paginate(potential_ids, limit, offset)
        page == IF cut = <<>> THEN <<>> ELSE FilteredIds(c, cut, where, where_document)
    IN  Ok([ids |-> page,
            metadatas |-> IF "metadatas" \in include
                          THEN Some([j \in DOMAIN page |-> DictGet(c.metadata_store, page[j])])
                          ELSE None,
            documents |-> IF "documents" \in include
                          THEN Some([j \in DOMAIN page |-> DictGet(c.doc_store, page[j])])
                          ELSE None])

\* FaissCollection.get (ids None or [] both mean every id; where None or {}
\* both mean no filter; offset None or 0 both mean 0)
GetResult(c, ids, where, limit, offset, where_document, include) ==
    LET page == Paginate(FilteredIds(c, ids, where, where_document), limit, offset)
    IN  Ok([ids |-> page,
            metadatas |-> IF "metadatas" \in include
                          THEN Some([j \in DOMAIN page |-> DictGet(c.metadata_store, page[j])])
                          ELSE None,
            documents |-> IF "documents" \in include
                          THEN Some([j \in DOMAIN page |-> DictGet(c.doc_store, page[j])])
                          ELSE None])

\* ------------------------------------------------------ calls made
\* what callers store with a record: an embedding, a document, a metadata dict
Payloads ==
    <<[vec |-> Unit(Dim, 1), doc |-> <<"x">>, meta |-> {<<"k", 1>>}],
      [vec |-> Unit(Dim, 1), doc |-> <<"x", "y">>, meta |-> {<<"k", 1>>, <<"t", 1>>}],
      [vec |-> Unit(Dim, 2), doc |-> <<"x", "y">>, meta |-> {}]>>

\* the payload of the j-th record of a batch whose first payload is Payloads[o]
PayloadAt(o, j) == Payloads[((o + j - 2) % Len(Payloads)) + 1]

AddCall(ids, embeddings, metadatas, documents) ==
    [op |-> "add", ids |-> ids, embeddings |-> embeddings,
     metadatas |-> metadatas, documents |-> documents]

\* add(ids, embeddings, metadatas?, documents?) with lists of one length;
\* flags = <<metadatas given, documents given>>
WellFormedAdds(sizes, flags) ==
    UNION {{AddCall(ids, [j \in 1..n |-> PayloadAt(o, j).vec],
                    IF f[1] THEN [j \in 1..n |-> PayloadAt(o, j).meta] ELSE None,
                    IF f[2] THEN [j \in 1..n |-> PayloadAt(o, j).doc] ELSE None) :
              ids \in [1..n -> Ids], o \in DOMAIN Payloads, f \in flags} :
           n \in sizes}

\* add with one embedding of the wrong length among the embeddings
BadDimensionAdds ==
    UNION {{AddCall(ids, [j \in 1..n |-> IF j = n THEN b ELSE Unit(Dim, 1)],
                    [j \in 1..n |-> {<<"k", 1>>}], [j \in 1..n |-> <<"x">>]) :
              ids \in [1..n -> Ids], b \in BadVecs} :
           n \in 1..MaxBatch}

\* add with an empty ids or embeddings list, or lists of different lengths
MalformedAdds ==
    {AddCall(<<>>, <<>>, None, None),
     AddCall(<<>>, <<Unit(Dim, 1)>>, None, None),
     AddCall(<<>>, <<Zero(Dim + 1)>>, None, None),
     AddCall(<<"a">>, <<>>, None, None),
     AddCall(<<"a", "b">>, <<Unit(Dim, 1)>>, None, None),
     AddCall(<<"a">>, <<Unit(Dim, 1)>>, <<{}, {}>>, None),
     AddCall(<<"a">>, <<Unit(Dim, 1)>>, None, <<<<"x">>, <<"x">>>>)}

AddCalls ==
    WellFormedAdds({1}, {<<TRUE, TRUE>>, <<FALSE, FALSE>>, <<TRUE, FALSE>>})
    \cup WellFormedAdds(2..MaxBatch, {<<TRUE, TRUE>>})
    \cup BadDimensionAdds \cup MalformedAdds

DeleteCalls == {[op |-> "delete", ids |-> ids] : ids \in SeqsOf(Ids, 0, MaxBatch)}

\* the adds and deletes made between queries: whole records, one at a time
RecordAdds == WellFormedAdds({1}, {<<TRUE, TRUE>>})

\* the adds made between gets: records with and without document / metadata
PartialAdds == WellFormedAdds({1}, {<<TRUE, TRUE>>, <<FALSE, FALSE>>})

\* the adds made between searches: record "a" with the first or the second
\* payload, record "b" with the second or the third
SearchAdds ==
    {a \in RecordAdds :
        \E o \in 1..2 : \E p \in {o, o + 1} :
            /\ a.ids = <<IdList[o]>>
            /\ a.embeddings = <<Payloads[p].vec>>
            /\ a.metadatas = <<Payloads[p].meta>>
            /\ a.documents = <<Payloads[p].doc>>}

SingleDeletes == {[op |-> "delete", ids |-> <<id>>] : id \in Ids}

IncludeAll == {"metadatas", "documents", "distances"}

QueryCalls ==
    {[op |-> "query", query_embeddings |-> qe, n_results |-> k, include |-> inc,
      where |-> {}, where_document |-> {}] :
        qe \in {<<>>} \cup {<<v>> : v \in Vecs \cup BadVecs}
                \cup {<<Unit(Dim, 2), Unit(Dim, 1)>>},
        k \in 0..MaxK,
        inc \in {IncludeAll, {"documents", "metadatas"}}}
    \cup {[op |-> "query", query_embeddings |-> <<Unit(Dim, 1)>>, n_results |-> MaxK,
           include |-> IncludeAll, where |-> w, where_document |-> {}] :
             w \in Wheres \ {{}}}

\* where / where_document pairs: every metadata clause alone and with a
\* $contains clause, and one unsupported where_document
GetFilters ==
    {<<w, wd>> : w \in Wheres, wd \in {{}, {<<"$contains", <<"y">>>>}}}
    \cup {<<{}, {<<"$regex", <<"y">>>>}>>}

\* limit / offset pairs: no limit, and limits below MaxK, at offsets below MaxK
GetPages ==
    {<<lim, off>> : lim \in {None, Some(MaxK - 1)}, off \in 0..MaxK - 1}
    \cup {<<Some(0), 0>>}

GetCall(ids, f, pg) ==
    [op |-> "get", ids |-> ids, where |-> f[1], limit |-> pg[1], offset |-> pg[2],
     where_document |-> f[2], include |-> {"metadatas", "documents"}]

GetCalls ==
    {GetCall(ids, f, pg) : ids \in {<<>>, <<"b", "a">>}, f \in GetFilters, pg \in GetPages}
    \cup {GetCall(<<"a", "a">>, <<{}, {}>>, pg) : pg \in GetPages}

\* ------------------------------------------------- retrieval pipeline
\* RAGHybridFusedRerank.__init__: rerank_k=3 (create_rag_pipeline: k_rerank=3)
rerank_k == 3

\* create_retrievers: k_embed=5
k_embed == 5

\* create_retrievers: k_bm25=5
k_bm25 == 5

\* an id (a one-letter string) read as a text
Text(s) == <<s>>

\* dspy.Example(long_text=..., **metadata); fields is the metadata, a set of
\* <<key, value>> pairs
Example(long_text, fields) == [long_text |-> long_text, fields |-> fields]

HasField(fields, key) == \E p \in fields : p[1] = key

Field(fields, key) == (CHOOSE p \in fields : p[1] = key)[2]

\* retrievers.py lines 28-29 and 70-71: the id goes into the metadata unless
\* the metadata has an 'id' already (doc_id is None or Some(id))
WithId(metadata, doc_id) ==
    IF doc_id # None /\ ~HasField(metadata, "id")
    THEN metadata \cup {<<"id", doc_id[1]>>}
    ELSE metadata

\* VectorRetriever.forward, lines 17-31: the examples made from a query result
VectorExamples(results) ==
    IF results.documents = None THEN <<>>
    ELSE IF results.documents[1] = <<>> THEN <<>>
    ELSE IF results.documents[1][1] = <<>> THEN <<>>
    ELSE LET documents == results.documents[1][1]
             docs_ids == IF results.ids # <<>> THEN results.ids[1]
                         ELSE [i \in DOMAIN documents |-> ToString(i - 1)]
             metadata(i) ==
                 IF results.metadatas = None THEN {}
                 ELSE IF results.metadatas[1] = <<>> THEN {}
                 ELSE IF i > Len(results.metadatas[1][1]) THEN {}
                 ELSE results.metadatas[1][1][i]
             doc_id(i) == IF i <= Len(docs_ids) THEN Some(docs_ids[i]) ELSE None
         IN  [i \in DOMAIN documents |-> Example(documents[i], WithId(metadata(i), doc_id(i)))]

\* line 29 writes into the dict that query handed out, which is the dict the
\* collection keeps in metadata_store: the store after VectorRetriever.forward
StoreAfterVector(c, results) ==
    IF VectorExamples(results) = <<>> \/ results.metadatas = None THEN c
    ELSE [c EXCEPT !.metadata_store =
            [j \in DOMAIN @ |->
                IF @[j][1] \in Range(ResultIds(results))
                THEN <<@[j][1], WithId(@[j][2], Some(@[j][1]))>>
                ELSE @[j]]]

\* BM25Retriever.__init__, lines 37-51 (doc_ids and metadatas are None or a
\* list; an entry of doc_ids is None or Some(id))
BM25RetrieverInit(corpus, doc_ids, metadatas) ==
    LET n == Len(corpus)
        ids0 == IF doc_ids # None /\ doc_ids[1] # <<>> THEN doc_ids[1] ELSE [j \in 1..n |-> None]
        metas0 == IF metadatas # None /\ metadatas[1] # <<>> THEN metadatas[1] ELSE [j \in 1..n |-> {}]
        given_ids == IF doc_ids = None THEN <<>> ELSE doc_ids[1]
        given_metas == IF metadatas = None THEN <<>> ELSE metadatas[1]
        mismatch == Len(ids0) # n \/ Len(metas0) # n
    IN  [corpus |-> corpus,
         doc_ids |-> IF mismatch
                     THEN given_ids \o [j \in 1..(n - Len(given_ids)) |-> None]
                     ELSE ids0,
         metadatas |-> IF mismatch
                       THEN given_metas \o [j \in 1..(n - Len(given_metas)) |-> {}]
                       ELSE metas0]

\* sorted(..., key=score, reverse=True): descending, equal scores keep their order
RECURSIVE SortedByScore(_)
SortedByScore(s) ==
    IF s = <<>> THEN <<>>
    ELSE LET rest == SortedByScore(Tail(s))
             h == Head(s)
         IN  SelectSeq(rest, LAMBDA e : e.score > h.score) \o <<h>>
               \o SelectSeq(rest, LAMBDA e : e.score <= h.score)

\* BM25Retriever.forward, lines 61-74: the loop over the ranked positions
RECURSIVE BM25Loop(_, _, _, _, _)
BM25Loop(r, ranked, j, docs, k) ==
    IF j > Len(ranked) THEN docs
    ELSE IF ranked[j].score <= 0 \/ Len(docs) >= k THEN docs
    ELSE LET i == ranked[j].item
             metadata == WithId(r.metadatas[i], r.doc_ids[i])
                           \cup {<<"bm25_score", ranked[j].score>>}
         IN  BM25Loop(r, ranked, j + 1, Append(docs, Example(r.corpus[i], metadata)), k)

\* the top k positions by score, whatever the sign of the score
BM25Examples_NoCutoff(r, scores, k) ==
    LET ranked == SortedByScore([i \in DOMAIN scores |-> [item |-> i, score |-> scores[i]]])
    IN  [j \in 1..Min(k, Len(ranked)) |->
            Example(r.corpus[ranked[j].item],
                    WithId(r.metadatas[ranked[j].item], r.doc_ids[ranked[j].item])
                      \cup {<<"bm25_score", ranked[j].score>>})]

\* BM25Retriever.forward; scores is what the BM25 processor returns for the
\* query, one score per corpus position (none for an empty corpus)
BM25Examples(r, scores, k) ==
    BM25Loop(r, SortedByScore([i \in DOMAIN scores |-> [item |-> i, score |-> scores[i]]]),
             1, <<>>, k)

\* retrievers.py line 54: k = k or self._k (k is None or Some(n); 0 is falsy)
EffectiveK(k, default) == IF k = None \/ k = Some(0) THEN default ELSE k[1]

\* the scores a BM25 processor can give a corpus position
Scores == -1..2

\* the values of the k argument of BM25Retriever.forward
KArgs == {None} \cup {Some(n) : n \in 0..MaxK}

\* rag_pipeline.py line 38: doc.get('id', doc.get('long_text'))
ExampleKey(doc) ==
    IF HasField(doc.fields, "id") THEN Text(Field(doc.fields, "id")) ELSE doc.long_text

\* lines 36-40: fused_docs_map, a dict from key to the first example with it
RECURSIVE FuseLoop(_, _, _)
FuseLoop(docs, i, fused_docs_map) ==
    IF i > Len(docs) THEN fused_docs_map
    ELSE FuseLoop(docs, i + 1,
                  IF ~DictHas(fused_docs_map, ExampleKey(docs[i]))
                  THEN DictSet(fused_docs_map, ExampleKey(docs[i]), docs[i])
                  ELSE fused_docs_map)

\* every candidate is kept
FusedList_NoDedup(vector_results, keyword_results) == vector_results \o keyword_results

\* lines 36-42: fused_list
FusedList(vector_results, keyword_results) ==
    LET fused_docs_map == FuseLoop(vector_results \o keyword_results, 1, <<>>)
    IN  [j \in DOMAIN fused_docs_map |-> fused_docs_map[j][2]]

\* equal scores come out in the reverse of their order in the list
Rerank_TiesReversed(documents_with_meta, score) ==
    LET n == Len(documents_with_meta)
        ranked == SortedByScore([i \in 1..n |->
                      [item |-> documents_with_meta[n + 1 - i],
                       score |-> score[documents_with_meta[n + 1 - i].long_text]]])
    IN  [j \in 1..Min(rerank_k, Len(ranked)) |-> ranked[j].item]

\* RAGHybridFusedRerank.rerank; score is what the reranker predicts for a text
Rerank(documents_with_meta, score) ==
    LET ranked == SortedByScore([i \in DOMAIN documents_with_meta |->
                      [item |-> documents_with_meta[i],
                       score |-> score[documents_with_meta[i].long_text]]])
    IN  [j \in 1..Min(rerank_k, Len(ranked)) |-> ranked[j].item]

\* line 48: "\n".join of the texts
RECURSIVE ContextText(_)
ContextText(examples) ==
    IF examples = <<>> THEN <<>>
    ELSE IF Len(examples) = 1 THEN examples[1].long_text
    ELSE examples[1].long_text \o <<"\n">> \o ContextText(Tail(examples))

\* ----------------------------------------------------- BM25Processor
\* the longest corpus the sparse index is built over
MaxCorpus == 3

\* a text is the sequence of the words word_tokenize splits it into; the
\* words of stopwords.words('english') among the words in use
StopWords == {"the", "and"}

\* the tokens in use for which str.isalnum is false
NonAlnum == {"!"}

\* str.lower on the words in use
Lower(word) == IF word = "Cat" THEN "cat" ELSE word

\* a plural is reduced to its singular before it is indexed
Stem(word) ==
    CASE word = "cats" -> "cat"
      [] word = "dogs" -> "dog"
      [] OTHER -> word

\* tokens that are stemmed after lowercasing
Tokenize_Stemmed(text) ==
    LET kept == SelectSeq(text, LAMBDA word :
                    word \notin NonAlnum /\ Lower(word) \notin StopWords)
    IN  [j \in DOMAIN kept |-> Stem(Lower(kept[j]))]

\* bm25_utils.py lines 32 and 41-44: the alphanumeric words that are no stop
\* words, in lower case
Tokenize(text) ==
    LET kept == SelectSeq(text, LAMBDA word :
                    word \notin NonAlnum /\ Lower(word) \notin StopWords)
    IN  [j \in DOMAIN kept |-> Lower(kept[j])]

\* 1000 * ln(m + 0.5) for m = 0..MaxCorpus + 1, rounded
LnHalf == <<-693, 405, 916, 1253, 1504>>

RECURSIVE SumOver(_, _)
SumOver(f, S) ==
    IF S = {} THEN 0
    ELSE LET x == CHOOSE y \in S : TRUE IN f[x] + SumOver(f, S \ {x})

\* BM25Okapi(tokenized_docs) of rank_bm25 with k1 = 1.5, b = 0.75 and
\* epsilon = 0.25, in thousandths: the inverse document frequency of every
\* word of the corpus, log(N - n + 0.5) - log(n + 0.5), a negative one
\* replaced by epsilon times the average
BM25Okapi(tokenized_docs) ==
    LET N == Len(tokenized_docs)
        words == UNION {Range(tokenized_docs[i]) : i \in DOMAIN tokenized_docs}
        n(word) == Cardinality({i \in DOMAIN tokenized_docs :
                                   word \in Range(tokenized_docs[i])})
        raw == [word \in words |-> LnHalf[N - n(word) + 1] - LnHalf[n(word) + 1]]
        average_idf == IF words = {} THEN 0 ELSE SumOver(raw, words) \div Cardinality(words)
    IN  [tokenized_docs |-> tokenized_docs,
         idf |-> [word \in words |->
                    IF raw[word] < 0 THEN average_idf \div 4 ELSE raw[word]]]

\* BM25Processor.__init__, lines 28-36
BM25Processor(documents) ==
    BM25Okapi([i \in DOMAIN documents |-> Tokenize(documents[i])])

\* create_bm25_index: None stands for the processor of an empty corpus
create_bm25_index(documents) ==
    IF documents = <<>> THEN None ELSE Some(BM25Processor(documents))

\* BM25Okapi.get_scores for one document: the sum over the query tokens of
\* idf * f * (k1 + 1) / (f + k1 * (1 - b + b * doc_len / avgdl))
RECURSIVE DocScore(_, _, _, _)
DocScore(bm25, tokenized_query, i, j) ==
    IF j > Len(tokenized_query) THEN 0
    ELSE LET docs == bm25.tokenized_docs
             q == tokenized_query[j]
             f == Cardinality({p \in DOMAIN docs[i] : docs[i][p] = q})
             total == SumOver([d \in DOMAIN docs |-> Len(docs[d])], DOMAIN docs)
             idf == IF q \in DOMAIN bm25.idf THEN bm25.idf[q] ELSE 0
             term == IF f = 0 THEN 0
                     ELSE (idf * 20 * f * total)
                            \div (8 * f * total + 3 * total + 9 * Len(docs[i]) * Len(docs))
         IN  term + DocScore(bm25, tokenized_query, i, j + 1)

\* BM25Processor.get_scores, lines 38-45 (and [] from the processor of an
\* empty corpus)
get_scores(processor, query) ==
    IF processor = None THEN <<>>
    ELSE [i \in DOMAIN processor[1].tokenized_docs |->
            DocScore(processor[1], Tokenize(query), i, 1)]

\* the documents the sparse index is built over
SparseDocs ==
    {<<"the", "cat", "sat">>, <<"dogs", "bark", "loudly">>, <<"cats", "and", "dogs">>,
     <<"Cat", "!", "cat">>}

\* the queries put to it
SparseQueries ==
    {<<"cat">>, <<"Cat", "!">>, <<"dogs">>, <<"the">>, <<"cats", "dogs">>, <<"bird">>}

\* ------------------------------------------------------- FaissClient
\* the collection names in use and the FaissClient instances that share one
\* base_path
Names == {"n1", "n2"}

\* the names in sorted order
NameList == <<"n1", "n2">>

Clients == {1, 2}

\* lines 370-371: the two files of a collection directory
IndexFileName == <<"i", "n", "d", "e", "x", ".", "f", "a", "i", "s", "s">>

MetadataFileName == <<"m", "e", "t", "a", "d", "a", "t", "a", ".", "p", "k", "l">>

\* line 424: the suffix list_collections looks for
IndexSuffix == <<".", "i", "n", "d", "e", "x">>

\* str.endswith
EndsWith(s, suffix) ==
    /\ Len(s) >= Len(suffix)
    /\ SubSeq(s, Len(s) - Len(suffix) + 1, Len(s)) = suffix

\* FaissClient.__init__: self.collections = {}
NoCollections == [name \in Names |-> None]

\* the base directory after os.makedirs(base_path): no collection directory
EmptyBase == [name \in Names |-> None]

\* os.path.exists(<base_path>/<name>/<file_name>)
Exists(b, name, file_name) ==
    /\ b[name] # None
    /\ IF file_name = IndexFileName THEN b[name][1].index_file # None
       ELSE IF file_name = MetadataFileName THEN b[name][1].metadata_file # None
       ELSE FALSE

\* os.listdir(<base_path>/<name>)
ListDir(b, name) == {f \in {IndexFileName, MetadataFileName} : Exists(b, name, f)}

\* os.makedirs(collection_path, exist_ok=True)
MakeDirs(b, name) ==
    IF b[name] = None THEN [b EXCEPT ![name] = Some(NoFiles)] ELSE b

\* FaissClient.get_or_create_collection: self.collections, the base directory
\* and the store returned
get_or_create_collection(collections, b, name) ==
    IF collections[name] # None
    THEN [collections |-> collections, base |-> b, ret |-> collections[name]]
    ELSE LET b2 == MakeDirs(b, name)
             collection == Load(b2[name][1], Dim)
         IN  [collections |-> [collections EXCEPT ![name] = Some(collection)],
              base |-> b2, ret |-> Some(collection)]

\* the lookup that creates what it does not find
get_collection_Creates(collections, b, name) ==
    get_or_create_collection(collections, b, name)

\* FaissClient.get_collection: the resident store, else the store loaded from
\* a directory that holds one of the two files, else None
get_collection(collections, b, name) ==
    IF collections[name] # None
    THEN [collections |-> collections, base |-> b, ret |-> collections[name]]
    ELSE IF b[name] # None
            /\ (Exists(b, name, IndexFileName) \/ Exists(b, name, MetadataFileName))
         THEN LET collection == Load(b[name][1], Dim)
              IN  [collections |-> [collections EXCEPT ![name] = Some(collection)],
                   base |-> b, ret |-> Some(collection)]
         ELSE [collections |-> collections, base |-> b, ret |-> None]

\* FaissClient.delete_collection: a resident name is popped, its two files
\* are removed and then the directory, which is empty by then; any other
\* name is only logged
delete_collection(collections, b, name) ==
    IF collections[name] # None
    THEN [collections |-> [collections EXCEPT ![name] = None],
          base |-> IF b[name] # None
                   THEN LET removed == [b EXCEPT ![name] = Some(NoFiles)]
                        IN  IF ListDir(removed, name) = {}
                            THEN [removed EXCEPT ![name] = None]
                            ELSE removed
                   ELSE b]
    ELSE [collections |-> collections, base |-> b]

\* lines 419-426: the resident names and the directories that hold
\* metadata.pkl or a file ending in ".index"
ListedNames(collections, b) ==
    {name \in Names : collections[name] # None}
    \cup {name \in Names :
            /\ b[name] # None
            /\ LET has_metadata == Exists(b, name, MetadataFileName)
                   has_index == \E f \in ListDir(b, name) : EndsWith(f, IndexSuffix)
               IN  has_metadata \/ has_index}

\* lines 427-435: each listed name is looked up, which makes it resident,
\* and counted
RECURSIVE ListLoop(_, _, _, _, _)
ListLoop(collections, b, names, i, result) ==
    IF i > Len(names)
    THEN [collections |-> collections, base |-> b, ret |-> result]
    ELSE LET r == get_collection(collections, b, names[i])
             n == IF r.ret # None THEN count(r.ret[1]) ELSE 0
         IN  ListLoop(r.collections, b, names, i + 1,
                      Append(result, [name |-> names[i], record_count |-> n]))

\* FaissClient.list_collections
list_collections(collections, b) ==
    LET listed == ListedNames(collections, b)
    IN  ListLoop(collections, b, SelectSeq(NameList, LAMBDA name : name \in listed),
                 1, <<>>)

\* the first save into a directory stands: files that exist are not rewritten
SavedFiles_FirstWriterWins(b, name, written, metadata_opens) ==
    IF b[name] = None THEN b
    ELSE IF b[name][1] # NoFiles THEN b
    ELSE [b EXCEPT ![name] = Some(written)]

\* the files of a collection's directory after _save ran over `files` and
\* left `written`: nothing is written without the directory, and only the
\* index file when the metadata file cannot be opened
SavedFiles(b, name, written, metadata_opens) ==
    IF b[name] = None THEN b
    ELSE [b EXCEPT ![name] =
            Some(IF metadata_opens THEN written
                 ELSE [index_file |-> written.index_file,
                       metadata_file |-> b[name][1].metadata_file])]

\* the adds two instances make on one collection: one record each, under
\* different external ids
SharedAdds ==
    {AddCall(<<"a">>, <<Payloads[1].vec>>, <<Payloads[1].meta>>, <<Payloads[1].doc>>),
     AddCall(<<"b">>, <<Payloads[3].vec>>, <<Payloads[3].meta>>, <<Payloads[3].doc>>)}

\* the add made on a store obtained from a FaissClient: one whole record
StoreAdds ==
    {AddCall(<<"a">>, <<Payloads[1].vec>>, <<Payloads[1].meta>>, <<Payloads[1].doc>>)}

\* ------------------------------------------------------ state machine
VARIABLES
    coll,    \* the FaissCollection instance in memory
    disk,    \* index.faiss and metadata.pkl of the collection
    call,    \* the last call made on the collection, with its arguments
    ret,     \* what that call returned or raised
    issued,  \* history: the internal ids add has handed out, in that order
    pipeline, \* the BM25 retriever of the cached RAG pipeline, None until built
    clients, \* per FaissClient instance: self.collections, name -> resident store
    base_path \* the base directory: name -> the collection's directory, if any

vars == <<coll, disk, call, ret, issued, pipeline, clients, base_path>>

\* FaissClient.get_or_create_collection on an empty base directory
Init ==
    /\ disk = NoFiles
    /\ coll = Load(NoFiles, Dim)
    /\ call = [op |-> "init"]
    /\ ret = Ok(None)
    /\ issued = <<>>
    /\ pipeline = None
    /\ clients = [client \in Clients |-> NoCollections]
    /\ base_path = EmptyBase

Add(calls) ==
    \E a \in calls :
        /\ coll.next_internal_id + Len(a.ids) <= MaxInternalId
        /\ LET r == AddResult(coll, disk, a.ids, a.embeddings, a.metadatas, a.documents)
           IN  /\ coll' = r.c
               /\ disk' = r.disk
               /\ ret' = r.ret
               /\ issued' = issued \o
                     AddAssigned(coll, a.ids, a.embeddings, a.metadatas, a.documents)
        /\ call' = a
        /\ UNCHANGED <<pipeline, clients, base_path>>

\* add in which the index insert raises: the call passes validation and has
\* a new id to insert
AddInsertRaises(calls) ==
    \E a \in calls :
        /\ coll.next_internal_id + Len(a.ids) <= MaxInternalId
        /\ AddValidation(coll, a.ids, a.embeddings, a.metadatas, a.documents) = "pass"
        /\ AddAssigned(coll, a.ids, a.embeddings, a.metadatas, a.documents) # <<>>
        /\ LET r == AddResultInsertRaises(coll, disk, a.ids, a.embeddings,
                                          a.metadatas, a.documents)
           IN  /\ coll' = r.c
               /\ disk' = r.disk
               /\ ret' = r.ret
               /\ issued' = issued \o
                     AddAssigned(coll, a.ids, a.embeddings, a.metadatas, a.documents)
        /\ call' = a
        /\ UNCHANGED <<pipeline, clients, base_path>>

Delete(calls) ==
    \E d \in calls :
        /\ LET r == DeleteResult(coll, disk, d.ids)
           IN  /\ coll' = r.c
               /\ disk' = r.disk
               /\ ret' = r.ret
        /\ call' = d
        /\ UNCHANGED <<issued, pipeline, clients, base_path>>

\* clear_all_issues() or clear_collection(name) on the collection
ClearCollection ==
    /\ \E fn \in {"clear_all_issues", "clear_collection"} :
          call' = [op |-> "clear", fn |-> fn]
    /\ LET r == clear_collection(coll, disk)
       IN  /\ coll' = r.c
           /\ disk' = r.disk
           /\ ret' = r.ret
    /\ UNCHANGED <<issued, pipeline, clients, base_path>>

Query ==
    \E q \in QueryCalls :
        /\ ret' \in QueryResults(coll, q.query_embeddings, q.n_results, q.include,
                                 q.where, q.where_document)
        /\ call' = q
        /\ UNCHANGED <<coll, disk, issued, pipeline, clients, base_path>>

Get ==
    \E g \in GetCalls :
        /\ ret' = GetResult(coll, g.ids, g.where, g.limit, g.offset,
                            g.where_document, g.include)
        /\ call' = g
        /\ UNCHANGED <<coll, disk, issued, pipeline, clients, base_path>>

Count ==
    /\ ret' = Ok(count(coll))
    /\ call' = [op |-> "count"]
    /\ UNCHANGED <<coll, disk, issued, pipeline, clients, base_path>>

\* the instance is dropped and a new FaissCollection is built on the same paths
Reload ==
    /\ coll' = Load(disk, Dim)
    /\ call' = [op |-> "reload"]
    /\ ret' = Ok(None)
    /\ UNCHANGED <<disk, issued, pipeline, clients, base_path>>

\* the index file is damaged on disk: faiss.read_index will raise on it
\* (once the first MaxInternalId internal ids are used up, which keeps the
\* history of issued ids finite)
CorruptIndexFile ==
    /\ Len(issued) = MaxInternalId
    /\ disk.index_file # None
    /\ disk.index_file[1].readable
    /\ disk' = [disk EXCEPT !.index_file = Some([@[1] EXCEPT !.readable = FALSE])]
    /\ call' = [op |-> "corrupt"]
    /\ ret' = Ok(None)
    /\ UNCHANGED <<coll, issued, pipeline, clients, base_path>>

\* the metadata file is damaged on disk: pickle.load will raise on it
CorruptMetadataFile ==
    /\ Len(issued) = MaxInternalId
    /\ disk.metadata_file # None
    /\ disk.metadata_file[1].readable
    /\ disk' = [disk EXCEPT !.metadata_file = Some([@[1] EXCEPT !.readable = FALSE])]
    /\ call' = [op |-> "corrupt_metadata"]
    /\ ret' = Ok(None)
    /\ UNCHANGED <<coll, issued, pipeline, clients, base_path>>

\* an index as a FaissClient with an embedding model of dimension d writes it
ForeignIndex(d) ==
    [d |-> d, is_idmap |-> TRUE, vecs |-> <<[id |-> 0, vec |-> Unit(d, 1)]>>]

\* the index file on disk was written for another embedding dimension
ForeignIndexFile ==
    /\ Len(issued) = MaxInternalId
    /\ disk.index_file # None
    /\ disk.index_file[1].index.d = Dim
    /\ disk' = [disk EXCEPT !.index_file =
                   Some([readable |-> TRUE, index |-> ForeignIndex(Dim + 1)])]
    /\ call' = [op |-> "foreign_index"]
    /\ ret' = Ok(None)
    /\ UNCHANGED <<coll, issued, pipeline, clients, base_path>>

\* one of the two files is gone from the directory while the other stays
RemoveFile ==
    /\ Len(issued) = MaxInternalId
    /\ disk.index_file # None
    /\ disk.metadata_file # None
    /\ \E file \in {"index_file", "metadata_file"} :
          /\ disk' = [disk EXCEPT ![file] = None]
          /\ call' = [op |-> "remove_file", file |-> file]
    /\ ret' = Ok(None)
    /\ UNCHANGED <<coll, issued, pipeline, clients, base_path>>

\* add whose _save writes the index file and then fails on the metadata file
\* (lines 88-99: the exception is logged, add returns normally)
AddSaveInterrupted(calls) ==
    \E a \in calls :
        /\ coll.next_internal_id + Len(a.ids) <= MaxInternalId
        /\ Len(issued) < MaxInternalId
        /\ AddAssigned(coll, a.ids, a.embeddings, a.metadatas, a.documents) # <<>>
        /\ LET r == AddResult(coll, disk, a.ids, a.embeddings, a.metadatas, a.documents)
           IN  /\ coll' = r.c
               /\ disk' = [index_file |-> r.disk.index_file,
                           metadata_file |-> disk.metadata_file]
               /\ ret' = r.ret
               /\ issued' = issued \o
                     AddAssigned(coll, a.ids, a.embeddings, a.metadatas, a.documents)
        /\ call' = [a EXCEPT !.op = "add_save_interrupted"]
        /\ UNCHANGED <<pipeline, clients, base_path>>

\* the pipeline is built once over the documents the collection holds then
\* (_get_rag_pipeline); create_retrievers hands the ids and metadatas of the
\* corpus to the BM25 retriever, or neither
BuildPipeline ==
    /\ pipeline = None
    /\ LET g == GetResult(coll, <<>>, {}, None, 0, {}, {"metadatas", "documents"}).value
           corpus == [j \in DOMAIN g.ids |-> g.documents[1][j][1]]
           metas == [j \in DOMAIN g.ids |-> g.metadatas[1][j][1]]
       IN  \E with_ids \in BOOLEAN :
              pipeline' = Some(BM25RetrieverInit(corpus,
                                   IF with_ids THEN Some([j \in DOMAIN g.ids |-> Some(g.ids[j])])
                                   ELSE None,
                                   IF with_ids THEN Some(metas) ELSE None))
    /\ call' = [op |-> "build"]
    /\ ret' = Ok(None)
    /\ UNCHANGED <<coll, disk, issued, clients, base_path>>

\* get_unified_corpus, unified_rag_service.py lines 18-35: the documents that
\* collection.get() returns, in its order
get_unified_corpus(store) ==
    LET g == GetResult(store, <<>>, {}, None, 0, {}, {"metadatas", "documents"}).value
    IN  [j \in DOMAIN g.ids |-> g.documents[1][j][1]]

\* _get_rag_pipeline, lines 45-58: the pipeline built over the corpus read
\* now; create_retrievers gets neither ids nor metadatas, and the generator is
\* the OpenRouter model only if use_llm is set
BuiltPipeline(store, use_llm) ==
    LET r == BM25RetrieverInit(get_unified_corpus(store), None, None)
    IN  Some([corpus |-> r.corpus, doc_ids |-> r.doc_ids, metadatas |-> r.metadatas,
              llm |-> IF use_llm THEN Some("openrouter") ELSE None])

\* every call reads the corpus again and builds a new pipeline
get_rag_pipeline_Rebuilds(cached, store, use_llm) ==
    BuiltPipeline(store, use_llm)

\* _get_rag_pipeline(use_llm), lines 41-59: the module-level pipeline if there
\* is one (lines 43-44), else a new one
get_rag_pipeline(cached, store, use_llm) ==
    IF cached # None THEN cached ELSE BuiltPipeline(store, use_llm)

\* what the injected models make of a question: the embedder its embedding,
\* the BM25 processor a score per corpus position, the reranker a score per text
Questions ==
    {[vec |-> Unit(Dim, 1), bm25 |-> <<1, 1>>, score |-> [t \in Docs |-> Len(t) - 1]],
     [vec |-> Unit(Dim, 2), bm25 |-> <<0, 1>>, score |-> [t \in Docs |-> 1]],
     [vec |-> Unit(Dim, 1), bm25 |-> <<1, 0>>, score |-> [t \in Docs |-> 2 - Len(t)]],
     [vec |-> Unit(Dim, 2), bm25 |-> <<0, 0>>, score |-> [t \in Docs |-> 0]]}

\* an answer is given also when no generation was asked for
ForwardOutcome_AlwaysAnswers(llm, reranked_examples) ==
    IF llm = "raises" THEN Raise("GeneratorError")
    ELSE Ok([context |-> reranked_examples, answer |-> Some("answer")])

\* rag_pipeline.py lines 50-58: what forward returns or raises after reranking;
\* llm is "off" (use_llm false), "returns" or "raises" (what the generator does
\* when use_llm is true); nothing catches what the generator raises
ForwardOutcome(llm, reranked_examples) ==
    CASE llm = "off" -> Ok([context |-> reranked_examples, answer |-> None])
      [] llm = "returns" -> Ok([context |-> reranked_examples, answer |-> Some("answer")])
      [] OTHER -> Raise("GeneratorError")

\* unified_rag_search, lines 68-85: one entry per context of the result, and
\* [] for whatever forward raised
UnifiedRagSearch(outcome) ==
    IF outcome.error # "" THEN Ok(<<>>)
    ELSE Ok([idx \in DOMAIN outcome.value.context |->
                [content |-> outcome.value.context[idx],
                 llm_answer |-> IF idx = 1 THEN outcome.value.answer ELSE None]])

\* RAGHybridFusedRerank.forward with VectorRetriever over the collection and
\* the BM25 retriever of the pipeline. The embedder, the BM25 processor, the
\* reranker and the generator are injected: their outputs are inputs here.
\* call' keeps the locals of the run.
Forward ==
    /\ pipeline # None
    /\ \E question \in Questions, llm \in {"off", "returns", "raises"} :
        \E r \in QueryResults(coll, <<question.vec>>, k_embed,
                              {"documents", "metadatas"}, {}, {}) :
            IF r.error # ""
            THEN /\ ret' = r
                 /\ call' = [op |-> "forward", question |-> question, llm |-> llm,
                             vector_results |-> <<>>, keyword_results |-> <<>>,
                             fused_list |-> <<>>, reranked_examples |-> <<>>,
                             generate_context |-> None]
                 /\ coll' = coll
            ELSE LET vector_results == VectorExamples(r.value)
                     scores == SubSeq(question.bm25, 1, Len(pipeline[1].corpus))
                     keyword_results == BM25Examples(pipeline[1], scores, k_bm25)
                     fused_list == FusedList(vector_results, keyword_results)
                     reranked_examples == Rerank(fused_list, question.score)
                     context_text == ContextText(reranked_examples)
                 IN  /\ coll' = StoreAfterVector(coll, r.value)
                     /\ call' = [op |-> "forward", question |-> question, llm |-> llm,
                                 vector_results |-> vector_results,
                                 keyword_results |-> keyword_results,
                                 fused_list |-> fused_list,
                                 reranked_examples |-> reranked_examples,
                                 generate_context |->
                                     IF llm = "off" THEN None ELSE Some(context_text)]
                     /\ ret' = ForwardOutcome(llm, reranked_examples)
    /\ UNCHANGED <<disk, issued, pipeline, clients, base_path>>

\* BM25Retriever.forward(query, k) on the retriever of the pipeline; the
\* scores of the BM25 processor for the query are an input, one per corpus
\* position (create_bm25_index gives an empty corpus a processor that returns [])
KeywordSearch ==
    /\ pipeline # None
    /\ \E scores \in [DOMAIN pipeline[1].corpus -> Scores], k \in KArgs :
          /\ call' = [op |-> "bm25_forward", scores |-> scores, k |-> k]
          /\ ret' = Ok(BM25Examples(pipeline[1], scores, EffectiveK(k, k_bm25)))
    /\ UNCHANGED <<coll, disk, issued, pipeline, clients, base_path>>

\* _get_rag_pipeline(use_llm) of unified_rag_service, as unified_rag_search
\* calls it first (line 69); the module global keeps what it returns
GetRagPipeline ==
    /\ \E use_llm \in BOOLEAN :
          /\ pipeline' = get_rag_pipeline(pipeline, coll, use_llm)
          /\ call' = [op |-> "get_rag_pipeline", use_llm |-> use_llm,
                      cached |-> pipeline # None]
    /\ ret' = Ok(None)
    /\ UNCHANGED <<coll, disk, issued, clients, base_path>>

\* a sparse index is built over a corpus (create_bm25_index, create_retrievers
\* without ids and metadatas) and BM25Retriever.forward(query, k) is run on it;
\* a search depends on nothing before it, so a behaviour makes one
SparseSearch ==
    /\ call.op = "init"
    /\ \E corpus \in SeqsOf(SparseDocs, 0, MaxCorpus), query \in SparseQueries,
          k \in 1..MaxCorpus :
          LET scores == get_scores(create_bm25_index(corpus), query)
          IN  /\ call' = [op |-> "sparse_search", corpus |-> corpus, query |-> query,
                          k |-> k, scores |-> scores]
              /\ ret' = Ok(BM25Examples(BM25RetrieverInit(corpus, None, None), scores, k))
    /\ UNCHANGED <<coll, disk, issued, pipeline, clients, base_path>>

\* get_or_create_collection(name) on one of the FaissClient instances
GetOrCreateCollection ==
    /\ \E client \in Clients, name \in Names :
        LET r == get_or_create_collection(clients[client], base_path, name)
        IN  /\ clients' = [clients EXCEPT ![client] = r.collections]
            /\ base_path' = r.base
            /\ call' = [op |-> "get_or_create_collection",
                        client |-> client, name |-> name,
                        resident |-> clients[client][name] # None]
            /\ ret' = Ok(r.ret)
    /\ UNCHANGED <<coll, disk, issued, pipeline>>

GetCollection ==
    /\ \E client \in Clients, name \in Names :
        LET r == get_collection(clients[client], base_path, name)
        IN  /\ clients' = [clients EXCEPT ![client] = r.collections]
            /\ base_path' = r.base
            /\ call' = [op |-> "get_collection", client |-> client, name |-> name,
                        resident |-> clients[client][name] # None]
            /\ ret' = Ok(r.ret)
    /\ UNCHANGED <<coll, disk, issued, pipeline>>

DeleteCollection ==
    /\ \E client \in Clients, name \in Names :
        LET r == delete_collection(clients[client], base_path, name)
        IN  /\ clients' = [clients EXCEPT ![client] = r.collections]
            /\ base_path' = r.base
            /\ call' = [op |-> "delete_collection", client |-> client, name |-> name,
                        resident |-> clients[client][name] # None]
            /\ ret' = Ok(None)
    /\ UNCHANGED <<coll, disk, issued, pipeline>>

ListCollections ==
    /\ \E client \in Clients :
        LET r == list_collections(clients[client], base_path)
        IN  /\ clients' = [clients EXCEPT ![client] = r.collections]
            /\ base_path' = r.base
            /\ call' = [op |-> "list_collections", client |-> client]
            /\ ret' = Ok(r.ret)
    /\ UNCHANGED <<coll, disk, issued, pipeline>>

\* add on a store that is resident in a FaissClient; _save writes into the
\* collection's directory, both files or, when metadata.pkl cannot be opened,
\* the index file alone
StoreAdd(calls, metadata_opens) ==
    /\ \E client \in Clients, name \in Names, a \in calls :
        /\ clients[client][name] # None
        /\ LET c == clients[client][name][1]
               files == IF base_path[name] = None THEN NoFiles ELSE base_path[name][1]
               r == AddResult(c, files, a.ids, a.embeddings, a.metadatas, a.documents)
           IN  /\ c.next_internal_id + Len(a.ids) <= MaxInternalId
               /\ metadata_opens \/ (base_path[name] # None /\ r.disk # files)
               /\ clients' = [clients EXCEPT ![client][name] = Some(r.c)]
               /\ base_path' = SavedFiles(base_path, name, r.disk, metadata_opens)
               /\ call' = [op |-> "store_add", client |-> client, name |-> name,
                           ids |-> a.ids]
               /\ ret' = r.ret
    /\ UNCHANGED <<coll, disk, issued, pipeline>>

\* the store under add, delete, count and close-and-reopen
Next == Add(AddCalls) \/ Delete(DeleteCalls) \/ Count \/ Reload

Spec == Init /\ [][Next]_vars

\* the store queried between adds and deletes of whole records, reloads and
\* damage to the index file
NextQuery ==
    Add(RecordAdds) \/ Delete(SingleDeletes) \/ Reload \/ CorruptIndexFile \/ Query

SpecQuery == Init /\ [][NextQuery]_vars

\* the adds made when the index insert may fail: whole records, up to
\* MaxBatch in a call
BatchAdds == WellFormedAdds(1..MaxBatch, {<<TRUE, TRUE>>})

\* the store when the index insert of an add may raise
NextFault == Add(BatchAdds) \/ AddInsertRaises(BatchAdds) \/ Delete(SingleDeletes)

SpecFault == Init /\ [][NextFault]_vars

\* the store read with get between adds and deletes
NextGet == Add(PartialAdds) \/ Delete(SingleDeletes) \/ Reload \/ Get

SpecGet == Init /\ [][NextGet]_vars

\* the pipeline searching the collection between adds and deletes
NextFuse == Add(SearchAdds) \/ Delete(SingleDeletes) \/ BuildPipeline \/ Forward

SpecFuse == Init /\ [][NextFuse]_vars

\* two FaissClient instances on one base directory, with adds on the stores
\* they hand out
NextRegistry ==
    \/ GetOrCreateCollection
    \/ GetCollection
    \/ DeleteCollection
    \/ ListCollections
    \/ StoreAdd(StoreAdds, TRUE)
    \/ StoreAdd(StoreAdds, FALSE)

SpecRegistry == Init /\ [][NextRegistry]_vars

\* the store reloaded from files that were damaged, written for another
\* dimension, or left half-written
NextLoad ==
    \/ Add(RecordAdds)
    \/ AddSaveInterrupted(RecordAdds)
    \/ Delete(SingleDeletes)
    \/ Reload
    \/ CorruptIndexFile
    \/ CorruptMetadataFile
    \/ ForeignIndexFile
    \/ RemoveFile

SpecLoad == Init /\ [][NextLoad]_vars

\* the BM25 retriever searched over the snapshot taken when the pipeline was
\* built, between adds and deletes on the collection
NextKeyword ==
    Add(SearchAdds) \/ Delete(SingleDeletes) \/ BuildPipeline \/ KeywordSearch

SpecKeyword == Init /\ [][NextKeyword]_vars

\* sparse indexes built over small corpora and queried
NextSparse == SparseSearch

SpecSparse == Init /\ [][NextSparse]_vars

\* two FaissClient instances that open the same collections and add to them
NextShared == GetOrCreateCollection \/ GetCollection \/ StoreAdd(SharedAdds, TRUE)

SpecShared == Init /\ [][NextShared]_vars

\* the cached pipeline of unified_rag_service and its sparse retriever, between
\* adds and deletes on the collection
NextUnified ==
    Add(SearchAdds) \/ Delete(SingleDeletes) \/ GetRagPipeline \/ KeywordSearch

SpecUnified == Init /\ [][NextUnified]_vars

\* the collection cleared between adds, deletes and reloads
NextClear ==
    Add(RecordAdds) \/ Delete(SingleDeletes) \/ Reload \/ ClearCollection

SpecClear == Init /\ [][NextClear]_vars

\* ------------------------------------------------------- observers
\* the external ids that are live, in dict order
LiveIds(c) == DictKeys(c.doc_id_to_faiss_id)

\* all that the collection holds for one external id
RecordOf(c, doc_id) ==
    LET internal == DictGet(c.doc_id_to_faiss_id, doc_id)
    IN  [internal_id |-> internal,
         embedding |-> IF internal = None THEN <<>>
                       ELSE [j \in DOMAIN SelectSeq(c.index.vecs, LAMBDA r : r.id = internal[1])
                               |-> SelectSeq(c.index.vecs, LAMBDA r : r.id = internal[1])[j].vec],
         document |-> DictGet(c.doc_store, doc_id),
         metadata |-> DictGet(c.metadata_store, doc_id)]

\* s has no element twice
NoDuplicates(s) == \A i, j \in DOMAIN s : i # j => s[i] # s[j]

StrictlyIncreasing(s) == \A i, j \in DOMAIN s : i < j => s[i] < s[j]

\* ------------------------------------------------------------ claims
\* C1, first half: the two id maps are inverses of each other without a key
\* twice, every live internal id was handed out by add, and the counter is
\* above every id handed out, which were handed out in increasing order
C1_Bijection ==
    /\ NoDuplicates(DictKeys(coll.doc_id_to_faiss_id))
    /\ NoDuplicates(DictKeys(coll.faiss_id_to_doc_id))
    /\ \A i \in DOMAIN coll.doc_id_to_faiss_id :
          DictGet(coll.faiss_id_to_doc_id, coll.doc_id_to_faiss_id[i][2])
            = Some(coll.doc_id_to_faiss_id[i][1])
    /\ \A i \in DOMAIN coll.faiss_id_to_doc_id :
          DictGet(coll.doc_id_to_faiss_id, coll.faiss_id_to_doc_id[i][2])
            = Some(coll.faiss_id_to_doc_id[i][1])
    /\ \A i \in DOMAIN coll.faiss_id_to_doc_id :
          coll.faiss_id_to_doc_id[i][1] \in Range(issued)
    /\ StrictlyIncreasing(issued)
    /\ \A n \in Range(issued) : n < coll.next_internal_id

\* C1, second half: no step (add, delete, count, reload) lowers the counter
C1_CounterStep == coll'.next_internal_id >= coll.next_internal_id

\* C1: in every state reached by add, delete and reload the id maps are mutual
\* inverses, and each internal id add hands out is greater than every one
\* handed out before, deleted or not: next_internal_id never decreases and no
\* internal id is reused
C1_IdBijection == [](C1_Bijection) /\ [][C1_CounterStep]_vars

\* C1 witness: after a reload, an add has handed out an id above the id of a
\* record that was deleted before
C1_Witness ==
    /\ call.op = "add"
    /\ \E m \in Range(issued) :
          /\ ~DictHas(coll.faiss_id_to_doc_id, m)
          /\ \E i \in DOMAIN coll.faiss_id_to_doc_id : coll.faiss_id_to_doc_id[i][1] > m
    /\ Len(issued) = MaxInternalId

\* C2: a new FaissCollection built on the same two paths answers every get
\* (the ids, documents and metadata of all records among them) and count()
\* as the instance in memory does
C2_RoundTrip ==
    LET reopened == Load(disk, coll.dimension)
    IN  /\ count(reopened) = count(coll)
        /\ \A g \in GetCalls :
              GetResult(reopened, g.ids, g.where, g.limit, g.offset, g.where_document, g.include)
                = GetResult(coll, g.ids, g.where, g.limit, g.offset, g.where_document, g.include)

\* C2 witness: a delete has removed a record and left another one, which has
\* a document and metadata, in the collection
C2_Witness ==
    /\ call.op = "delete"
    /\ ret.value # <<>>
    /\ \E i \in DOMAIN coll.doc_store : DictHas(coll.metadata_store, coll.doc_store[i][1])

\* a well-formed add call: non-empty lists of one length, embeddings of the
\* collection's dimension
WellFormedAdd(a) ==
    /\ a.ids # <<>>
    /\ Len(a.embeddings) = Len(a.ids)
    /\ a.metadatas # <<>> => Len(a.metadatas) = Len(a.ids)
    /\ a.documents # <<>> => Len(a.documents) = Len(a.ids)
    /\ \A j \in DOMAIN a.embeddings : Len(a.embeddings[j]) = Dim

\* C3, as a step: a well-formed add raises nothing, leaves every record whose
\* id was present as it was, and raises count() by the number of new ids only
C3_Step ==
    (call'.op = "add" /\ WellFormedAdd(call')) =>
        /\ ret'.error = ""
        /\ \A id \in Range(call'.ids) :
              DictHas(coll.doc_id_to_faiss_id, id) => RecordOf(coll', id) = RecordOf(coll, id)
        /\ count(coll') = count(coll)
              + Cardinality({id \in Range(call'.ids) : ~DictHas(coll.doc_id_to_faiss_id, id)})

C4_Step ==
    (/\ call'.op = "add"
     /\ call'.ids # <<>>
     /\ \E j \in DOMAIN call'.embeddings : Len(call'.embeddings[j]) # coll.dimension) =>
        /\ ret'.error = "ValueError"
        /\ coll' = coll
        /\ disk' = disk

IsQuery ==
    /\ call.op = "query"
    /\ call.query_embeddings # <<>>
    /\ DimensionOk(call.query_embeddings, Dim)

\* the stored embedding of a live record
StoredVec(c, doc_id) == RecordOf(c, doc_id).embedding[1]

\* C5's case: a query for at least one result with the stored embedding of
\* the live record r
C5_Case(r) ==
    /\ IsQuery
    /\ call.n_results >= 1
    /\ DictHas(coll.doc_id_to_faiss_id, r)
    /\ StoredVec(coll, r) = call.query_embeddings[1]

\* C5 as claimed: a query with the stored embedding of a live record r
\* returns r first at distance 0, also when another record has that embedding
C5_Original ==
    \A r \in Ids : C5_Case(r) =>
        /\ ret.error = ""
        /\ ResultIds(ret.value) # <<>>
        /\ ResultIds(ret.value)[1] = r
        /\ "distances" \in call.include => ResultDistances(ret.value)[1] = 0

\* C5 amended: a query with the stored embedding of a live record r returns
\* first, at distance 0, a record that has this embedding; it is r when no
\* other live record has the same embedding
C5_ExactMatchFirst ==
    \A r \in Ids : C5_Case(r) =>
        /\ ret.error = ""
        /\ ResultIds(ret.value) # <<>>
        /\ StoredVec(coll, ResultIds(ret.value)[1]) = call.query_embeddings[1]
        /\ "distances" \in call.include => ResultDistances(ret.value)[1] = 0
        /\ (\A o \in Range(LiveIds(coll)) : o # r => StoredVec(coll, o) # StoredVec(coll, r))
              => ResultIds(ret.value)[1] = r

\* C5 witness: of two records with different embeddings, the one whose
\* embedding was queried came first at distance 0, the other after it
C5_Witness ==
    /\ IsQuery
    /\ "distances" \in call.include
    /\ Len(ResultIds(ret.value)) = 2
    /\ StoredVec(coll, ResultIds(ret.value)[1]) = call.query_embeddings[1]
    /\ ResultDistances(ret.value)[1] = 0
    /\ ResultDistances(ret.value)[2] > 0

\* C6: query on a collection without vectors returns no ids and raises
\* nothing, whatever the query embedding and n_results
C6_EmptySafe ==
    (call.op = "query" /\ count(coll) = 0) =>
        /\ ret.error = ""
        /\ ResultIds(ret.value) = <<>>

\* C6 witness: the collection had records and was re-initialized by a load
\* (the counter is back at 0); it was then queried with an embedding of the
\* wrong length
C6_Witness ==
    /\ call.op = "query"
    /\ count(coll) = 0
    /\ issued # <<>>
    /\ coll.next_internal_id = 0
    /\ call.query_embeddings # <<>>
    /\ ~DimensionOk(call.query_embeddings, Dim)
    /\ call.n_results >= 1

\* the gets without filter and page and the queries for MaxK results: what
\* any other get or query returns is part of what one of these returns
WholeGets ==
    {g \in GetCalls :
        g.where = {} /\ g.where_document = {} /\ g.limit = None /\ g.offset = 0}

WholeQueries == {q \in QueryCalls : q.n_results = MaxK /\ q.include = IncludeAll}

\* C8, as a step: delete(ids) returns the input ids that were live, each once;
\* count() drops by their number; no get and no query returns one of them;
\* the other records and their order are untouched; delete without ids
\* changes nothing and returns []
C8_Step ==
    call'.op = "delete" =>
        /\ ret'.error = ""
        /\ Range(ret'.value) = {id \in Range(call'.ids) : DictHas(coll.doc_id_to_faiss_id, id)}
        /\ NoDuplicates(ret'.value)
        /\ count(coll') = count(coll) - Len(ret'.value)
        /\ \A g \in WholeGets :
              Range(GetResult(coll', g.ids, g.where, g.limit, g.offset,
                              g.where_document, g.include).value.ids)
                \cap Range(ret'.value) = {}
        /\ \A q \in WholeQueries :
              \A r \in QueryResults(coll', q.query_embeddings, q.n_results, q.include,
                                    q.where, q.where_document) :
                 r.error = "" => Range(ResultIds(r.value)) \cap Range(ret'.value) = {}
        /\ \A id \in Ids \ Range(ret'.value) : RecordOf(coll', id) = RecordOf(coll, id)
        /\ LiveIds(coll') = SelectSeq(LiveIds(coll), LAMBDA id : id \notin Range(ret'.value))
        /\ call'.ids = <<>> => (ret'.value = <<>> /\ coll' = coll /\ disk' = disk)

\* C8: delete(ids) returns exactly the input ids that were live before the
\* call (each once, unknown ids skipped without error); count() has dropped
\* by that number, neither get nor query returns them, every other record is
\* unchanged; delete without an id list removes nothing and returns []
C8_Delete == [][C8_Step]_vars

\* C8 witness: a delete of two ids returned one of them (the other was
\* unknown or named twice) and left a record in the collection
C8_Witness ==
    /\ call.op = "delete"
    /\ Len(call.ids) = 2
    /\ Len(ret.value) = 1
    /\ count(coll) >= 1

\* C9: query(embedding, k) returns at most k results, nearest first, each a
\* live record once, with its own L2 distance; no live record left out is
\* strictly nearer than a returned one; with at least k live records exactly
\* k are returned
C9_NearestK ==
    (IsQuery /\ ret.error = "") =>
        LET ids == ResultIds(ret.value)
            q == call.query_embeddings[1]
            dist(id) == SqDist(StoredVec(coll, id), q, 1)
        IN  /\ Len(ids) <= call.n_results
            /\ NoDuplicates(ids)
            /\ \A i \in DOMAIN ids : DictHas(coll.doc_id_to_faiss_id, ids[i])
            /\ \A i, j \in DOMAIN ids :
                  i < j => L2Distance(dist(ids[i])) <= L2Distance(dist(ids[j]))
            /\ "distances" \in call.include =>
                  ResultDistances(ret.value) = [i \in DOMAIN ids |-> L2Distance(dist(ids[i]))]
            /\ \A x \in Range(LiveIds(coll)) \ Range(ids) :
                  \A i \in DOMAIN ids : dist(x) >= dist(ids[i])
            /\ Len(LiveIds(coll)) >= call.n_results => Len(ids) = call.n_results

\* C9 witness: a query for one result on two live records returned the
\* nearer one and left out a strictly farther one
C9_Witness ==
    /\ IsQuery
    /\ call.n_results = 1
    /\ Len(ResultIds(ret.value)) = 1
    /\ \E x \in Range(LiveIds(coll)) :
          SqDist(StoredVec(coll, x), call.query_embeddings[1], 1)
            > SqDist(StoredVec(coll, ResultIds(ret.value)[1]), call.query_embeddings[1], 1)

\* the live ids in the order their records were inserted (internal ids grow
\* with every insertion)
InsertionOrder(c) ==
    CHOOSE s \in [1..Len(LiveIds(c)) -> Range(LiveIds(c))] :
        /\ NoDuplicates(s)
        /\ \A i, j \in DOMAIN s :
              i < j => DictGet(c.doc_id_to_faiss_id, s[i])[1] < DictGet(c.doc_id_to_faiss_id, s[j])[1]

\* the record of doc_id has every key of the where clause with the clause's
\* value, and its document contains every $contains term
Satisfies(c, doc_id, where, where_document) ==
    /\ \A kv \in where :
          /\ RecordOf(c, doc_id).metadata # None
          /\ kv \in RecordOf(c, doc_id).metadata[1]
    /\ \A p \in where_document :
          /\ RecordOf(c, doc_id).document # None
          /\ Contains(RecordOf(c, doc_id).document[1], p[2])

\* C10: get returns, in insertion order or in the order of the given id list,
\* the live records that satisfy the metadata equality filter and the
\* document substring filter, cut to [offset, offset+limit) after filtering,
\* each with its own metadata and document
C10_FilterThenPage ==
    (/\ call.op = "get"
     /\ \A p \in call.where_document : p[1] = "$contains") =>
        LET base == IF call.ids # <<>> THEN call.ids ELSE InsertionOrder(coll)
            filtered == SelectSeq(base, LAMBDA id :
                           /\ DictHas(coll.doc_id_to_faiss_id, id)
                           /\ Satisfies(coll, id, call.where, call.where_document))
            last == IF call.limit = None THEN Len(filtered)
                    ELSE Min(call.offset + call.limit[1], Len(filtered))
            page == SubSeq(filtered, call.offset + 1, last)
        IN  /\ ret.error = ""
            /\ ret.value.ids = page
            /\ ret.value.metadatas = Some([j \in DOMAIN page |-> RecordOf(coll, page[j]).metadata])
            /\ ret.value.documents = Some([j \in DOMAIN page |-> RecordOf(coll, page[j]).document])

\* C10 witness: a get with a metadata filter and a limit returned a record
\* that is not the first of the collection: the first one fails the filter
C10_Witness ==
    /\ call.op = "get"
    /\ call.ids = <<>>
    /\ call.where # {}
    /\ call.limit # None
    /\ call.offset = 0
    /\ Len(ret.value.ids) = 1
    /\ ret.value.ids[1] # InsertionOrder(coll)[1]

\* the candidates of the last forward run, dense before sparse
Candidates == call.vector_results \o call.keyword_results

\* the positions of Candidates whose key no earlier candidate has
FirstOccurrences ==
    {i \in DOMAIN Candidates :
        \A j \in 1..(i - 1) : ExampleKey(Candidates[j]) # ExampleKey(Candidates[i])}

\* the n-th smallest position of FirstOccurrences
NthFirst(n) ==
    CHOOSE i \in FirstOccurrences : Cardinality({j \in FirstOccurrences : j < i}) = n - 1

\* the ids carried by the examples of a list
IdsOf(examples) ==
    {Field(examples[i].fields, "id") :
        i \in {j \in DOMAIN examples : HasField(examples[j].fields, "id")}}

\* C7: forward fuses by first occurrence: the fused list is the dense results
\* followed by the sparse results without every candidate whose key (its id,
\* or its text when it has no id) an earlier candidate has; an id found in
\* both lists is in the fused list exactly once, on the dense candidate
C7_FuseFirstOccurrence ==
    (call.op = "forward" /\ ret.error # "ValueError") =>
        /\ call.fused_list =
              [n \in 1..Cardinality(FirstOccurrences) |-> Candidates[NthFirst(n)]]
        /\ \A id \in IdsOf(call.vector_results) \cap IdsOf(call.keyword_results) :
              \E n \in DOMAIN call.fused_list :
                  /\ HasField(call.fused_list[n].fields, "id")
                  /\ Field(call.fused_list[n].fields, "id") = id
                  /\ \E i \in DOMAIN call.vector_results :
                        /\ call.fused_list[n] = call.vector_results[i]
                        /\ \A j \in 1..(i - 1) :
                              ExampleKey(call.vector_results[j]) # Text(id)
                  /\ ~HasField(call.fused_list[n].fields, "bm25_score")
                  /\ \A m \in DOMAIN call.fused_list :
                        (/\ HasField(call.fused_list[m].fields, "id")
                         /\ Field(call.fused_list[m].fields, "id") = id) => m = n

\* C7 witness: an id came back from both retrievers, its sparse candidate was
\* dropped, and a sparse candidate with another key was kept after the dense
\* ones
C7_Witness ==
    /\ call.op = "forward"
    /\ ret.error = ""
    /\ IdsOf(call.vector_results) \cap IdsOf(call.keyword_results) # {}
    /\ Len(call.fused_list) < Len(Candidates)
    /\ Len(call.fused_list) > Len(call.vector_results)

\* position i of the fused list ranks before position j: a higher reranker
\* score, or the same score and an earlier place
RanksBefore(i, j) ==
    LET s(n) == call.question.score[call.fused_list[n].long_text]
    IN  s(i) > s(j) \/ (s(i) = s(j) /\ i < j)

\* the position of the fused list that n - 1 others rank before
NthRanked(n) ==
    CHOOSE i \in DOMAIN call.fused_list :
        Cardinality({j \in DOMAIN call.fused_list : RanksBefore(j, i)}) = n - 1

\* C11: rerank returns the fused candidates in descending order of reranker
\* score, cut to rerank_k; candidates of equal score keep their order from the
\* fused list
C11_RerankStable ==
    (call.op = "forward" /\ ret.error # "ValueError") =>
        call.reranked_examples =
            [n \in 1..Min(rerank_k, Len(call.fused_list)) |-> call.fused_list[NthRanked(n)]]

\* C11 witness: more than rerank_k fused candidates, two of the returned ones
\* with the same score, and an order that is not the fused order
C11_Witness ==
    /\ call.op = "forward"
    /\ Len(call.fused_list) > rerank_k
    /\ Len(call.reranked_examples) = rerank_k
    /\ call.reranked_examples # SubSeq(call.fused_list, 1, rerank_k)
    /\ \E n \in 1..(rerank_k - 1) :
          call.question.score[call.reranked_examples[n].long_text]
            = call.question.score[call.reranked_examples[n + 1].long_text]

\* C12 as claimed: when generation is asked for and the generator raises,
\* forward still returns the reranked candidates with a null answer and the
\* caller of the search receives them
C12_GenerationFailureKeepsResults ==
    (call.op = "forward" /\ call.llm = "raises") =>
        /\ ret.error = ""
        /\ ret.value.context = call.reranked_examples
        /\ ret.value.answer = None
        /\ Len(UnifiedRagSearch(ret).value) = Len(call.reranked_examples)

\* the texts joined by newlines
RECURSIVE JoinedLines(_)
JoinedLines(texts) ==
    IF texts = <<>> THEN <<>>
    ELSE IF Len(texts) = 1 THEN texts[1]
    ELSE texts[1] \o <<"\n">> \o JoinedLines(Tail(texts))

\* C13: a completed forward run carries the reranked candidates as context;
\* its answer is non-null only if use_llm was true and the generator returned;
\* with use_llm false the generator is not invoked and the answer is null; the
\* generator is invoked with the texts of the reranked candidates (at most
\* rerank_k) joined by newlines
C13_DoneCarriesContext ==
    (call.op = "forward" /\ ret.error # "ValueError") =>
        /\ ret.error = "" =>
              /\ ret.value.context = call.reranked_examples
              /\ ret.value.answer # None => call.llm = "returns"
        /\ call.llm = "off" =>
              /\ call.generate_context = None
              /\ ret.error = ""
              /\ ret.value.answer = None
        /\ call.generate_context # None =>
              /\ call.llm # "off"
              /\ Len(call.reranked_examples) <= rerank_k
              /\ call.generate_context[1] =
                    JoinedLines([n \in DOMAIN call.reranked_examples |->
                                    call.reranked_examples[n].long_text])

\* C13 witness: a run with use_llm false over candidates ended without answer
\* and without a generator call
C13_Witness ==
    /\ call.op = "forward"
    /\ call.llm = "off"
    /\ ret.error = ""
    /\ Len(ret.value.context) >= 2
    /\ ret.value.answer = None
    /\ call.generate_context = None

\* the lists of an add call are not all of one length (metadatas and
\* documents count when given)
LengthsDiffer(a) ==
    \/ Len(a.ids) # Len(a.embeddings)
    \/ a.metadatas # None /\ Len(a.metadatas) # Len(a.ids)
    \/ a.documents # None /\ Len(a.documents) # Len(a.ids)

\* C14, as a step: an add whose lists differ in length raises and changes
\* neither the instance nor the files
C14_Step ==
    (call'.op = "add" /\ LengthsDiffer(call')) =>
        /\ ret'.error = "ValueError"
        /\ coll' = coll
        /\ disk' = disk

\* C14 as claimed: add rejects with an error, before any change to the maps,
\* the index or the files, every call whose ids, embeddings, documents and
\* metadatas are not all of one length, also when one list is empty and the
\* others are not
C14_LengthsRejected == [][C14_Step]_vars

\* C15, as a step: when the index insert of an add raises, the four maps are
\* what they were before the call, the index and both files are untouched,
\* and next_internal_id stays advanced by the number of ids the call took
C15_Step ==
    (call'.op = "add" /\ ret'.error = "IndexError") =>
        /\ coll'.doc_id_to_faiss_id = coll.doc_id_to_faiss_id
        /\ coll'.faiss_id_to_doc_id = coll.faiss_id_to_doc_id
        /\ coll'.metadata_store = coll.metadata_store
        /\ coll'.doc_store = coll.doc_store
        /\ coll'.index = coll.index
        /\ disk' = disk
        /\ coll'.next_internal_id > coll.next_internal_id
        /\ coll'.next_internal_id = coll.next_internal_id + Len(issued') - Len(issued)

\* C15: if the index insert inside add raises, the error is propagated, the
\* four maps are as before the call, no file is rewritten and
\* next_internal_id is not rolled back
C15_InsertFailureRollsBack == [][C15_Step]_vars

\* C15 witness: the insert of a two-record add raised; one of its ids was live
\* before and still is, the other is gone again and the counter stays advanced
C15_Witness ==
    /\ call.op = "add"
    /\ ret.error = "IndexError"
    /\ Len(call.ids) = 2
    /\ Len(LiveIds(coll)) = 1
    /\ LiveIds(coll)[1] \in Range(call.ids)
    /\ coll.next_internal_id = 2
    /\ count(coll) = 1

\* C16 as claimed: a query with an equality filter on metadata fields
\* returns only records whose metadata satisfies the filter
C16_QueryFilterApplied ==
    (call.op = "query" /\ call.where # {} /\ ret.error = "") =>
        \A id \in Range(ResultIds(ret.value)) : Satisfies(coll, id, call.where, {})

\* the files of a collection's directory that exist
FilesOf(name) == ListDir(base_path, name)

\* C17 as claimed: after delete_collection(name) the registry holds no handle
\* for name and neither the index file nor the metadata file of name exists,
\* whether or not the collection was resident in the registry that was asked
C17_DeleteRemovesCompletely ==
    call.op = "delete_collection" =>
        /\ clients[call.client][call.name] = None
        /\ FilesOf(call.name) = {}

\* C18 as claimed: after list_collections, every name for which
\* get_collection(name) returns a store is in the list, with that store's
\* record count
C18_ListFindsEveryCollection ==
    call.op = "list_collections" =>
        \A name \in Names :
            LET r == get_collection(clients[call.client], base_path, name)
            IN  r.ret # None =>
                    \E i \in DOMAIN ret.value :
                        /\ ret.value[i].name = name
                        /\ ret.value[i].record_count = count(r.ret[1])

\* a step that is get_or_create_collection(name) on one FaissClient
IsGetOrCreate(c) == c.op = "get_or_create_collection"

\* C19, as a step: the call repeated returns the same store and changes
\* nothing, and after any such call both files of the collection exist and
\* every other FaissClient on the base directory finds the collection
C19_Step ==
    IsGetOrCreate(call') =>
        /\ (IsGetOrCreate(call) /\ call'.client = call.client /\ call'.name = call.name)
              => /\ ret' = ret
                 /\ clients' = clients
                 /\ base_path' = base_path
        /\ ListDir(base_path', call'.name) = {IndexFileName, MetadataFileName}
        /\ \A other \in Clients \ {call'.client} :
              get_collection(clients'[other], base_path', call'.name).ret # None

\* C19 as claimed: get_or_create_collection(name) is idempotent and leaves the
\* directory of name with its index file and its metadata file, so that another
\* FaissClient on the same base directory finds the collection
C19_CreateIdempotentWithLayout == [][C19_Step]_vars

\* what the two files of a directory hold for one external id
PersistedRecord(files, doc_id) ==
    LET data == files.metadata_file[1].data
        internal == DictGet(ReverseMap(data.faiss_map, 1, <<>>), doc_id)
        vecs == files.index_file[1].index.vecs
    IN  [internal_id |-> internal,
         embedding |-> IF internal = None THEN <<>>
                       ELSE [j \in DOMAIN SelectSeq(vecs, LAMBDA r : r.id = internal[1])
                               |-> SelectSeq(vecs, LAMBDA r : r.id = internal[1])[j].vec],
         document |-> DictGet(data.documents, doc_id),
         metadata |-> DictGet(data.metadata, doc_id)]

\* the external ids the metadata file of a directory holds
PersistedIds(files) ==
    {files.metadata_file[1].data.faiss_map[i][2] :
        i \in DOMAIN files.metadata_file[1].data.faiss_map}

\* C20, as a step: get_collection(name) for a name that is not resident leaves
\* the base directory as it was; without a file of name on disk it returns
\* None and leaves the handles as they were; with a file on disk it makes the
\* store it returns resident, and no other, and with both files on disk that
\* store holds exactly the records the files hold
C20_Step ==
    (call'.op = "get_collection" /\ ~call'.resident) =>
        LET client == call'.client
            name == call'.name
        IN  /\ base_path' = base_path
            /\ IF ListDir(base_path, name) = {}
               THEN /\ ret' = Ok(None)
                    /\ clients' = clients
               ELSE /\ ret'.error = ""
                    /\ ret'.value # None
                    /\ clients' = [clients EXCEPT ![client][name] = ret'.value]
                    /\ ListDir(base_path, name) = {IndexFileName, MetadataFileName} =>
                          LET files == base_path[name][1]
                              store == ret'.value[1]
                          IN  /\ Range(LiveIds(store)) = PersistedIds(files)
                              /\ count(store) = ntotal(files.index_file[1].index)
                              /\ \A id \in PersistedIds(files) :
                                    RecordOf(store, id) = PersistedRecord(files, id)

\* C20: get_collection never creates anything: for a name neither resident nor
\* on disk it returns None and changes neither the handles nor the base
\* directory, and a collection on disk that is not resident is loaded with
\* the records its files hold
C20_GetNeverCreates == [][C20_Step]_vars

\* C20 witness: get_collection has loaded, for a FaissClient in which it was
\* not resident, a collection whose files hold a record
C20_Witness ==
    /\ call.op = "get_collection"
    /\ ~call.resident
    /\ ret.value # None
    /\ count(ret.value[1]) > 0
    /\ LiveIds(ret.value[1]) # <<>>
    /\ clients[call.client][call.name] = ret.value

\* C20 witness, the other case: get_collection has returned None for a name
\* whose directory exists without a file
C20_WitnessNotFound ==
    /\ call.op = "get_collection"
    /\ ~call.resident
    /\ ret.value = None
    /\ base_path[call.name] # None

\* a store as it is after re-initialization: no vector, no id, counter 0
ComesUpEmpty(c) ==
    /\ count(c) = 0
    /\ c.index.vecs = <<>>
    /\ LiveIds(c) = <<>>
    /\ c.faiss_id_to_doc_id = <<>>
    /\ c.metadata_store = <<>>
    /\ c.doc_store = <<>>
    /\ c.next_internal_id = 0

\* exactly one of the two files is in the directory
OneFileOnly(d) == (d.index_file # None) # (d.metadata_file # None)

\* C21, as a step: a load from a directory that holds exactly one of the two
\* files gives an empty store
C21_Step ==
    (call'.op = "reload" /\ OneFileOnly(disk)) => ComesUpEmpty(coll')

\* C21 as claimed: a FaissCollection loaded with exactly one of its two files
\* present comes up empty: count() is 0, no id is known, next_internal_id is 0
\* and nothing of the half that was present is used
C21_HalfStateComesUpEmpty == [][C21_Step]_vars

\* the files make the load fail: the index file cannot be read or holds an
\* index of another dimension, or the metadata file cannot be read
LoadFails(d) ==
    \/ /\ d.index_file # None
       /\ (~d.index_file[1].readable \/ d.index_file[1].index.d # Dim)
    \/ /\ d.metadata_file # None
       /\ ~d.metadata_file[1].readable

\* C22, as a step: a load from such files returns normally with the store
\* re-initialized and leaves the files as they are
C22_Step ==
    (call'.op = "reload" /\ LoadFails(disk)) =>
        /\ ret'.error = ""
        /\ coll' = Collection(NewIndex(Dim), ResetStores, Dim)
        /\ ComesUpEmpty(coll')
        /\ coll'.index.d = Dim
        /\ disk' = disk

\* C22: when the stored index has another dimension than the configured one,
\* or the index file or the metadata file cannot be read, loading raises
\* nothing, gives an empty index of the configured dimension with empty maps
\* and next_internal_id 0, and does not rewrite the files
C22_LoadFailureReinitializes == [][C22_Step]_vars

\* C22 witness: a store was loaded from a readable index file that holds
\* vectors and a metadata file that cannot be read, and came up empty
C22_Witness ==
    /\ call.op = "reload"
    /\ disk.index_file # None
    /\ disk.index_file[1].readable
    /\ disk.index_file[1].index.d = Dim
    /\ disk.index_file[1].index.vecs # <<>>
    /\ disk.metadata_file # None
    /\ ~disk.metadata_file[1].readable
    /\ ComesUpEmpty(coll)

\* C22 witness, dimension: a store was loaded from an index file of another
\* dimension beside a metadata file that holds records, and came up empty
C22_WitnessDimension ==
    /\ call.op = "reload"
    /\ disk.index_file # None
    /\ disk.index_file[1].readable
    /\ disk.index_file[1].index.d # Dim
    /\ disk.metadata_file # None
    /\ disk.metadata_file[1].readable
    /\ disk.metadata_file[1].data.faiss_map # <<>>
    /\ ComesUpEmpty(coll)

\* the internal ids of the vectors an index holds
IndexIds(index) == {index.vecs[i].id : i \in DOMAIN index.vecs}

\* C29, as a step: an add hands out no internal id that a vector of the index
\* it adds to already has
C29_Step ==
    call'.op = "add" =>
        Range(AddAssigned(coll, call'.ids, call'.embeddings,
                          call'.metadatas, call'.documents))
            \cap IndexIds(coll.index) = {}

\* C29 as claimed: after a save that wrote the index file and not the metadata
\* file, a reload followed by an add of a new external id never hands out an
\* internal id that a vector of the loaded index already has
C29_NoInternalIdReuse == [][C29_Step]_vars

\* C28: in every state reached by add, delete and reload, count() is the
\* number of live external ids, every internal id in the index is a key of
\* faiss_id_to_doc_id, the document map and the metadata map have keys among
\* the live external ids, and a query returns only ids that get knows, none
\* of them twice
C28_CountMatchesLiveIds ==
    /\ count(coll) = Len(LiveIds(coll))
    /\ IndexIds(coll.index) \subseteq Range(DictKeys(coll.faiss_id_to_doc_id))
    /\ Range(DictKeys(coll.doc_store)) \subseteq Range(LiveIds(coll))
    /\ Range(DictKeys(coll.metadata_store)) \subseteq Range(LiveIds(coll))
    /\ \A q \in WholeQueries :
          \A r \in QueryResults(coll, q.query_embeddings, q.n_results, q.include,
                                q.where, q.where_document) :
             r.error = "" =>
                /\ NoDuplicates(ResultIds(r.value))
                /\ \A id \in Range(ResultIds(r.value)) :
                      GetResult(coll, <<id>>, {}, None, 0, {}, {}).value.ids = <<id>>

\* C28 witness: a store reloaded after adds and a delete holds MaxBatch
\* records, one of them under the last internal id
C28_Witness ==
    /\ call.op = "reload"
    /\ count(coll) = MaxBatch
    /\ coll.next_internal_id = MaxInternalId
    /\ MaxInternalId - 1 \in IndexIds(coll.index)
    /\ Len(coll.doc_store) < Len(LiveIds(coll))

\* C23, as a step: a run of the retrieval pipeline leaves the collection's
\* maps, index and counter as they were, and every get answers as before
C23_Step ==
    call'.op = "forward" =>
        /\ coll'.metadata_store = coll.metadata_store
        /\ coll'.doc_store = coll.doc_store
        /\ coll'.faiss_id_to_doc_id = coll.faiss_id_to_doc_id
        /\ coll'.doc_id_to_faiss_id = coll.doc_id_to_faiss_id
        /\ coll'.index = coll.index
        /\ coll'.next_internal_id = coll.next_internal_id
        /\ \A g \in WholeGets :
              GetResult(coll', g.ids, g.where, g.limit, g.offset, g.where_document, g.include)
                = GetResult(coll, g.ids, g.where, g.limit, g.offset, g.where_document, g.include)

\* C23 as claimed: a retrieval (VectorRetriever.forward, BM25Retriever.forward,
\* RAGHybridFusedRerank.forward) mutates nothing in the store, so that get
\* returns the same records before and after a search
C23_RetrievalMutatesNothing == [][C23_Step]_vars

\* the last call is BM25Retriever.forward
IsKeywordSearch == call.op = "bm25_forward"

\* what BM25Retriever.forward returned is the best k of the positions with a
\* positive score: as many as there are, at most k, each position once, in
\* descending score order, none left out for a lower-scoring one, each with
\* the text, the metadata and the id of its position and its score
C24_Ranking(k) ==
    LET docs == ret.value
        r == pipeline[1]
        scores == call.scores
        positive == {i \in DOMAIN scores : scores[i] > 0}
    IN  /\ Len(docs) = Min(k, Cardinality(positive))
        /\ \E pos \in [DOMAIN docs -> positive] :
              /\ \A j, l \in DOMAIN docs : j # l => pos[j] # pos[l]
              /\ \A j, l \in DOMAIN docs : j < l => scores[pos[j]] >= scores[pos[l]]
              /\ \A i \in positive \ Range(pos) :
                    \A j \in DOMAIN docs : scores[i] <= scores[pos[j]]
              /\ \A j \in DOMAIN docs :
                    /\ docs[j].long_text = r.corpus[pos[j]]
                    /\ r.metadatas[pos[j]] \subseteq docs[j].fields
                    /\ r.doc_ids[pos[j]] # None =>
                          /\ HasField(docs[j].fields, "id")
                          /\ Field(docs[j].fields, "id") = r.doc_ids[pos[j]][1]
                    /\ Field(docs[j].fields, "bm25_score") = scores[pos[j]]

\* C24 as claimed: forward(query, k) returns min(k, number of positions with
\* a positive score) candidates for the k it was given
C24_Original ==
    (IsKeywordSearch /\ call.k # None) => C24_Ranking(call.k[1])

\* C24, amended: with k >= 1, or with k absent or 0 and the retriever's own k
\* in its place, forward returns the positions with a strictly positive score
\* in descending score order cut to k, each with the id and metadata of its
\* position; for an empty corpus it returns nothing and raises nothing
C24_PositiveTopK ==
    IsKeywordSearch =>
        /\ ret.error = ""
        /\ C24_Ranking(EffectiveK(call.k, k_bm25))
        /\ pipeline[1].corpus = <<>> => ret.value = <<>>

\* C24 witness: of two positions with positive scores, the second the higher,
\* forward with k = 1 has returned the second one, with its id
C24_Witness ==
    /\ IsKeywordSearch
    /\ call.k = Some(1)
    /\ Len(call.scores) = 2
    /\ call.scores[1] > 0
    /\ call.scores[2] > call.scores[1]
    /\ Len(ret.value) = 1
    /\ ret.value[1].long_text = pipeline[1].corpus[2]
    /\ HasField(ret.value[1].fields, "id")

\* C24 witness, cutoff: forward has left out a position whose score is not
\* positive although k allowed for it
C24_WitnessCutoff ==
    /\ IsKeywordSearch
    /\ call.k = None
    /\ Len(call.scores) = 2
    /\ call.scores[1] <= 0
    /\ call.scores[2] > 0
    /\ Len(ret.value) = 1

\* the corpus and the query of the example
ExampleCorpus ==
    <<<<"the", "cat", "sat">>, <<"dogs", "bark", "loudly">>, <<"cats", "and", "dogs">>>>

IsExampleSearch ==
    /\ call.op = "sparse_search"
    /\ call.corpus = ExampleCorpus
    /\ call.query = <<"cat">>

\* the texts BM25Retriever.forward returned
ReturnedTexts == {ret.value[j].long_text : j \in DOMAIN ret.value}

\* C25 as claimed: for the corpus ["the cat sat", "dogs bark loudly", "cats and
\* dogs"] and the query "cat", documents 0 and 2 score above document 1, which
\* scores 0, and the sparse retriever with k = 3 returns documents 0 and 2 and
\* not document 1
C25_Original ==
    IsExampleSearch =>
        /\ call.scores[1] > call.scores[2]
        /\ call.scores[3] > call.scores[2]
        /\ call.scores[2] = 0
        /\ call.k = 3 => ReturnedTexts = {ExampleCorpus[1], ExampleCorpus[3]}

\* C25, amended: for that corpus and query, document 0 scores above documents
\* 1 and 2, which both score 0 ("cats" is another token than "cat"), and the
\* sparse retriever with k = 3 returns document 0 alone
C25_ExactTokenMatch ==
    IsExampleSearch =>
        /\ call.scores[1] > 0
        /\ call.scores[2] = 0
        /\ call.scores[3] = 0
        /\ call.k = 3 => /\ Len(ret.value) = 1
                         /\ ReturnedTexts = {ExampleCorpus[1]}

\* C25 witness: the example was searched with k = 3 and one document came back
C25_Witness ==
    /\ IsExampleSearch
    /\ call.k = 3
    /\ Len(ret.value) = 1
    /\ ret.value[1].long_text = <<"the", "cat", "sat">>

\* C26, as a step: an add that saved leaves in the files exactly the records
\* of the instance that made it; a record that another instance saved and
\* this instance does not hold is no longer in the files, and a collection
\* reopened from them holds the writer's records only
C26_Step ==
    (call'.op = "store_add" /\ ret'.error = "" /\ base_path[call'.name] # None
       /\ clients'[call'.client][call'.name] # clients[call'.client][call'.name]) =>
        LET name == call'.name
            files == base_path'[name][1]
            writer == clients'[call'.client][name][1]
            reopened == Load(files, Dim)
        IN  /\ PersistedIds(files) = Range(LiveIds(writer))
            /\ LiveIds(reopened) = LiveIds(writer)
            /\ count(reopened) = count(writer)
            /\ \A id \in Ids : RecordOf(reopened, id) = RecordOf(writer, id)
            /\ \A other \in Clients \ {call'.client} :
                  clients'[other][name] # None =>
                      \A id \in Range(LiveIds(clients'[other][name][1]))
                                  \ Range(LiveIds(writer)) :
                          id \notin Range(LiveIds(reopened))

\* C26: two instances opened on the same files do not see each other's adds;
\* each save rewrites both files from the writer's memory alone, so
\* that an add by one instance removes from disk what the other one added
C26_LastWriterWins == [][C26_Step]_vars

\* C26 witness: two instances have each completed an add of a different
\* external id on one collection without error, both under the same internal
\* id, and the collection reopened from disk holds one of the two records
C26_Witness ==
    \E name \in Names :
        /\ call.op = "store_add"
        /\ call.name = name
        /\ ret.error = ""
        /\ \A client \in Clients : clients[client][name] # None
        /\ \E x, y \in Ids :
              /\ x # y
              /\ LiveIds(clients[1][name][1]) = <<x>>
              /\ LiveIds(clients[2][name][1]) = <<y>>
              /\ RecordOf(clients[1][name][1], x).internal_id
                    = RecordOf(clients[2][name][1], y).internal_id
        /\ base_path[name] # None
        /\ Len(LiveIds(Load(base_path[name][1], Dim))) = 1

\* C27: once _get_rag_pipeline has built the pipeline, no add, delete, search
\* or later _get_rag_pipeline call, whatever its use_llm, changes it: the
\* corpus stays the one read at the first call and the generator the one
\* chosen then, and what the sparse retriever returns are texts of that corpus
C27_Step ==
    /\ pipeline # None => pipeline' = pipeline
    /\ (pipeline = None /\ call'.op = "get_rag_pipeline") =>
          /\ pipeline' # None
          /\ pipeline'[1].corpus = get_unified_corpus(coll)
          /\ pipeline'[1].llm # None <=> call'.use_llm
    /\ call'.op = "bm25_forward" =>
          \A j \in DOMAIN ret'.value :
              ret'.value[j].long_text \in Range(pipeline[1].corpus)

C27_SnapshotNeverRefreshed == [][C27_Step]_vars

\* C27 witness: the sparse retriever has returned the text of a record that
\* was deleted after the pipeline was built, while the collection holds a
\* record added since whose text is not in the corpus
C27_Witness ==
    /\ call.op = "bm25_forward"
    /\ pipeline # None
    /\ \E j \in DOMAIN ret.value :
          ret.value[j].long_text \notin Range(get_unified_corpus(coll))
    /\ \E t \in Range(get_unified_corpus(coll)) : t \notin Range(pipeline[1].corpus)

\* C27 witness, use_llm: a call with use_llm set has found a cached pipeline
\* built without a generator and left it so
C27_WitnessUseLlm ==
    /\ call.op = "get_rag_pipeline"
    /\ call.cached
    /\ call.use_llm
    /\ pipeline[1].llm = None

\* C30: when clear_all_issues or clear_collection has returned True, the
\* collection is empty: count() is 0 and get() returns no record
C30_ClearEmpties ==
    (call.op = "clear" /\ ret.error = "" /\ ret.value) =>
        /\ count(coll) = 0
        /\ GetResult(coll, <<>>, {}, None, 0, {}, {"metadatas", "documents"}).value.ids = <<>>

====
